---------------------------- MODULE Spec2Model ----------------------------
(***************************************************************************)
(* Model of flow_agent_mcp: the binary flow decoders with their template   *)
(* caches, the bounded FlowStore, and the UDP collectors that feed it.     *)
(*                                                                         *)
(* Conventions                                                             *)
(*  - A datagram is a sequence of bytes (0..255); offsets are 0-based as in *)
(*    the Python source, so data[off] of the source is data[off + 1] here.  *)
(*  - A Python int decoded from the wire is kept exactly, whatever its      *)
(*    width, as its big-endian base-256 digits without leading zeros (a     *)
(*    "Num"); 0 is the empty sequence.  Header fields that take part in     *)
(*    offset arithmetic (lengths, counts, ids, unix_secs) are TLA+ integers.*)
(*  - A decoder call returns [flows, raised, cache]: the list it returns,   *)
(*    whether an exception left the call instead, and the template cache    *)
(*    after the call (puts made before an exception stay).                  *)
(***************************************************************************)
EXTENDS Integers, Sequences, FiniteSets, TLC

(***************************************************************************)
(* Bytes and struct.unpack                                                 *)
(***************************************************************************)
Min(a, b) == IF a < b THEN a ELSE b

Max(a, b) == IF a > b THEN a ELSE b

\* Python's s[a:b] for 0 <= a, 0 <= b (clamped to the length of s).
Slice(s, a, b) == SubSeq(s, a + 1, Min(b, Len(s)))

\* struct.unpack_from("!B" / "!H" / "!I", data, off)[0]
U8(data, off) == data[off + 1]

U16(data, off) == data[off + 1] * 256 + data[off + 2]

U32(data, off) ==
    ((data[off + 1] * 256 + data[off + 2]) * 256 + data[off + 3]) * 256 + data[off + 4]

\* int of a big-endian byte string of any width, as a Num.
RECURSIVE ToNum(_)
ToNum(bs) == IF bs = <<>> THEN <<>>
             ELSE IF Head(bs) = 0 THEN ToNum(Tail(bs))
             ELSE bs

Zero == <<>>

RECURSIVE ZeroBytes(_)
ZeroBytes(n) == IF n <= 0 THEN <<>> ELSE <<0>> \o ZeroBytes(n - 1)

BE16(n) == <<(n \div 256) % 256, n % 256>>

BE32(n) == <<(n \div 16777216) % 256, (n \div 65536) % 256, (n \div 256) % 256, n % 256>>

RECURSIVE Flatten(_)
Flatten(ss) == IF ss = <<>> THEN <<>> ELSE Head(ss) \o Flatten(Tail(ss))

(***************************************************************************)
(* Python floats: IEEE 754 binary64 numbers, here m * 2^e with m a natural *)
(* number of at most Precision bits, odd unless the float is zero, kept as *)
(* its digits in base 2^15, lowest first.  Every operation gives the       *)
(* float nearest the exact result, ties to the even mantissa, as the       *)
(* hardware does.  The floats of this program stay far from the largest    *)
(* and the smallest binary64 exponents, and none is a NaN.                 *)
(***************************************************************************)
Precision == 53

LimbBits == 15

LimbBase == 2^15

RECURSIVE NTrim(_)
NTrim(a) ==
    IF a # <<>> /\ a[Len(a)] = 0 THEN NTrim(SubSeq(a, 1, Len(a) - 1)) ELSE a

RECURSIVE NFromInt(_)
NFromInt(n) == IF n = 0 THEN <<>> ELSE <<n % LimbBase>> \o NFromInt(n \div LimbBase)

RECURSIVE NToInt(_)
NToInt(a) == IF a = <<>> THEN 0 ELSE Head(a) + LimbBase * NToInt(Tail(a))

RECURSIVE NAddC(_, _, _)
NAddC(a, b, c) ==
    IF a = <<>> /\ b = <<>> THEN (IF c = 0 THEN <<>> ELSE <<c>>)
    ELSE LET x == IF a = <<>> THEN 0 ELSE Head(a)
             y == IF b = <<>> THEN 0 ELSE Head(b)
             s == x + y + c
         IN <<s % LimbBase>> \o NAddC(IF a = <<>> THEN a ELSE Tail(a),
                                      IF b = <<>> THEN b ELSE Tail(b), s \div LimbBase)

NAdd(a, b) == NAddC(a, b, 0)

RECURSIVE NSubB(_, _, _)
\* a - b - borrow, for a >= b + borrow
NSubB(a, b, borrow) ==
    IF a = <<>> THEN <<>>
    ELSE LET y == IF b = <<>> THEN 0 ELSE Head(b)
             d == Head(a) - y - borrow
         IN <<d % LimbBase>> \o NSubB(Tail(a), IF b = <<>> THEN b ELSE Tail(b),
                                      IF d < 0 THEN 1 ELSE 0)

NSub(a, b) == NTrim(NSubB(a, b, 0))

RECURSIVE NCmpFrom(_, _, _)
NCmpFrom(a, b, i) ==
    IF i = 0 THEN 0
    ELSE IF a[i] < b[i] THEN -1
    ELSE IF a[i] > b[i] THEN 1
    ELSE NCmpFrom(a, b, i - 1)

\* -1, 0, 1 as a < b, a = b, a > b
NCmp(a, b) ==
    IF Len(a) < Len(b) THEN -1
    ELSE IF Len(a) > Len(b) THEN 1
    ELSE NCmpFrom(a, b, Len(a))

RECURSIVE NMulSmall(_, _, _)
NMulSmall(a, d, c) ==
    IF a = <<>> THEN (IF c = 0 THEN <<>> ELSE <<c>>)
    ELSE LET p == Head(a) * d + c
         IN <<p % LimbBase>> \o NMulSmall(Tail(a), d, p \div LimbBase)

RECURSIVE NMul(_, _)
NMul(a, b) ==
    IF a = <<>> \/ b = <<>> THEN <<>>
    ELSE LET rest == NMul(a, Tail(b))
         IN NAdd(NMulSmall(a, Head(b), 0), IF rest = <<>> THEN rest ELSE <<0>> \o rest)

SmallBitLen(x) == CHOOSE k \in 1..LimbBits : 2^(k - 1) <= x /\ x < 2^k

NBitLen(a) == IF a = <<>> THEN 0 ELSE LimbBits * (Len(a) - 1) + SmallBitLen(a[Len(a)])

\* a * 2^k
NShl(a, k) ==
    IF a = <<>> THEN a
    ELSE [i \in 1..(k \div LimbBits) |-> 0] \o NMulSmall(a, 2^(k % LimbBits), 0)

RECURSIVE NShrSmall(_, _)
\* a \div d, d a power of two below the base
NShrSmall(a, d) ==
    IF a = <<>> THEN a
    ELSE <<(Head(a) \div d) + (IF Len(a) > 1 THEN a[2] % d ELSE 0) * (LimbBase \div d)>>
         \o NShrSmall(Tail(a), d)

\* a \div 2^k
NShr(a, k) ==
    IF k \div LimbBits >= Len(a) THEN <<>>
    ELSE NTrim(NShrSmall(SubSeq(a, k \div LimbBits + 1, Len(a)), 2^(k % LimbBits)))

NBit(a, i) ==
    IF i \div LimbBits + 1 > Len(a) THEN 0
    ELSE (a[i \div LimbBits + 1] \div 2^(i % LimbBits)) % 2

NOdd(a) == a # <<>> /\ a[1] % 2 = 1

\* One step of the long division of n by d: bit i of n joins the rest.
NDivStep(n, d, i, qr) ==
    LET r2 == NAddC(qr[2], qr[2], NBit(n, i))
        fits == NCmp(r2, d) >= 0
    IN <<NAddC(qr[1], qr[1], IF fits THEN 1 ELSE 0), IF fits THEN NSub(r2, d) ELSE r2>>

RECURSIVE NDivRange(_, _, _, _, _)
\* The steps for bits hi down to lo of n, from quotient and rest qr.
NDivRange(n, d, hi, lo, qr) ==
    IF hi < lo THEN qr
    ELSE IF hi = lo THEN NDivStep(n, d, hi, qr)
    ELSE LET mid == (hi + lo + 1) \div 2
             upper == NDivRange(n, d, hi, mid, qr)
         IN IF Len(upper) = 2 THEN NDivRange(n, d, mid - 1, lo, upper) ELSE upper

\* <<n \div d, n % d>>
NDivMod(n, d) == NDivRange(n, d, NBitLen(n) - 1, 0, <<<<>>, <<>>>>)

\* One step of the square root of n digit by digit: bit pair i of n joins
\* the rest.
NSqrtStep(n, i, sr) ==
    LET r4 == NAdd(NShl(sr[2], 2), NFromInt(2 * NBit(n, 2 * i + 1) + NBit(n, 2 * i)))
        t == NAddC(NShl(sr[1], 2), <<>>, 1)
        fits == NCmp(r4, t) >= 0
    IN <<NAddC(sr[1], sr[1], IF fits THEN 1 ELSE 0), IF fits THEN NSub(r4, t) ELSE r4>>

RECURSIVE NSqrtRange(_, _, _, _)
NSqrtRange(n, hi, lo, sr) ==
    IF hi < lo THEN sr
    ELSE IF hi = lo THEN NSqrtStep(n, hi, sr)
    ELSE LET mid == (hi + lo + 1) \div 2
             upper == NSqrtRange(n, hi, mid, sr)
         IN IF Len(upper) = 2 THEN NSqrtRange(n, mid - 1, lo, upper) ELSE upper

\* <<the whole part s of the square root of n, n - s * s>>
NSqrt(n) == NSqrtRange(n, (NBitLen(n) + 1) \div 2 - 1, 0, <<<<>>, <<>>>>)

FZero == [neg |-> FALSE, m |-> <<>>, e |-> 0]

RECURSIVE NTrailingZeros(_)
NTrailingZeros(a) ==
    IF Head(a) = 0 THEN LimbBits + NTrailingZeros(Tail(a))
    ELSE (CHOOSE k \in 1..LimbBits : Head(a) % 2^k # 0 /\ Head(a) % 2^(k - 1) = 0) - 1

\* m * 2^e with m odd
FNorm(neg, m, e) ==
    IF m = <<>> THEN FZero
    ELSE LET z == NTrailingZeros(m)
         IN [neg |-> neg, m |-> NShr(m, z), e |-> e + z]

\* The float nearest m * 2^e, or nearest a number just above it (inexact).
FRound(neg, m, e, inexact) ==
    LET k == NBitLen(m) - Precision
    IN IF k <= 0 THEN FNorm(neg, m, e)
       ELSE LET q2 == NShr(m, k - 1)
                q == NShr(q2, 1)
                above == inexact \/ NShl(q2, k - 1) # m
                up == NOdd(q2) /\ (above \/ NOdd(q))
            IN FNorm(neg, IF up THEN NAddC(q, <<>>, 1) ELSE q, e + k)

FNeg(a) == IF a.m = <<>> THEN a ELSE [a EXCEPT !.neg = ~a.neg]

FAbs(a) == [a EXCEPT !.neg = FALSE]

\* a + b, not rounded
FSum(a, b) ==
    LET e == IF a.e < b.e THEN a.e ELSE b.e
        ma == NShl(a.m, a.e - e)
        mb == NShl(b.m, b.e - e)
        c == NCmp(ma, mb)
    IN IF a.m = <<>> THEN b
       ELSE IF b.m = <<>> THEN a
       ELSE IF a.neg = b.neg THEN [neg |-> a.neg, m |-> NAdd(ma, mb), e |-> e]
       ELSE IF c = 0 THEN FZero
       ELSE IF c > 0 THEN [neg |-> a.neg, m |-> NSub(ma, mb), e |-> e]
       ELSE [neg |-> b.neg, m |-> NSub(mb, ma), e |-> e]

FAdd(a, b) == LET s == FSum(a, b) IN FRound(s.neg, s.m, s.e, FALSE)

FSub(a, b) == FAdd(a, FNeg(b))

FMul(a, b) == FRound(a.neg # b.neg, NMul(a.m, b.m), a.e + b.e, FALSE)

FLess(a, b) == FSum(a, FNeg(b)).neg

FLeq(a, b) == ~FLess(b, a)

FDiv(a, b) ==
    LET s == Max(0, Precision + 2 + NBitLen(b.m) - NBitLen(a.m))
        qr == NDivMod(NShl(a.m, s), b.m)
    IN IF a.m = <<>> THEN FZero
       ELSE FRound(a.neg # b.neg, qr[1], a.e - b.e - s, qr[2] # <<>>)

\* math.sqrt(a), a >= 0
FSqrt(a) ==
    LET s0 == Max(0, 2 * (Precision + 2) - NBitLen(a.m))
        s == IF (a.e - s0) % 2 = 0 THEN s0 ELSE s0 + 1
        sr == NSqrt(NShl(a.m, s))
    IN IF a.m = <<>> THEN FZero
       ELSE FRound(FALSE, sr[1], (a.e - s) \div 2, sr[2] # <<>>)

\* float(n), n an int
FInt(n) == FNorm(n < 0, NFromInt(IF n < 0 THEN -n ELSE n), 0)

\* the float a decimal literal num/den stands for
Dec(num, den) == FDiv(FInt(num), FInt(den))

\* math.floor(a), a >= 0
FFloor(a) == IF a.e >= 0 THEN NToInt(NShl(a.m, a.e)) ELSE NToInt(NShr(a.m, -a.e))

\* math.ceil(a), a >= 0
FCeil(a) == IF a.e >= 0 THEN FFloor(a) ELSE FFloor(a) + 1

(***************************************************************************)
(* FlowRecord (core/models.py)                                             *)
(***************************************************************************)
FlowRecord(ts, src, dst, src_port, dst_port, proto, latency_ms, bytes, packets) ==
    [ts |-> ts, src |-> src, dst |-> dst, src_port |-> src_port,
     dst_port |-> dst_port, proto |-> proto, latency_ms |-> latency_ms,
     bytes |-> bytes, packets |-> packets]

\* str(ipaddress.IPv4Address(v)) for an int v: the dotted quad of a value
\* below 2**32; a larger value raises AddressValueError ("Raise").
IPv4Raises(num) == Len(num) > 4

_ipv4_from_u32(num) == <<"ipv4", ZeroBytes(4 - Len(num)) \o num>>

\* str(ipaddress.IPv4Address(b)) for a 4-byte string b.
_ipv4_from_bytes(b) == <<"ipv4", b>>

\* str(v) of an int: its decimal text, one text per value.
StrOfInt(num) == <<"int", num>>


(***************************************************************************)
(* Dicts (Python dict with string or tuple keys)                            *)
(***************************************************************************)
EmptyDict == [k \in {} |-> Zero]

DictSet(d, k, v) == [x \in DOMAIN d \cup {k} |-> IF x = k THEN v ELSE d[x]]

DictGet(d, k, default) == IF k \in DOMAIN d THEN d[k] ELSE default

\* What a decoder call yields.
Returned(flows, cache) == [flows |-> flows, raised |-> FALSE, cache |-> cache]

Raised(cache) == [flows |-> <<>>, raised |-> TRUE, cache |-> cache]

(***************************************************************************)
(* NetFlow v9 template cache (netflow_udp/decoder.py)                       *)
(***************************************************************************)
\* None, as returned by dict.get for a missing key.
None == [template_id |-> -1, fields |-> <<>>]

_TemplateField(field_type, field_len) == [field_type |-> field_type, field_len |-> field_len]

_Template(template_id, fields) == [template_id |-> template_id, fields |-> fields]

\* self._templates.setdefault((exporter, source_id), {})[template.template_id] = template
\* The nested dict is kept flat, keyed by <<exporter, source_id, template_id>>.
\* A cache that keeps only the template stored last.
NetFlowV9TemplateCache_put_Evicting(cache, exporter, source_id, template) ==
    DictSet(EmptyDict, <<exporter, source_id, template.template_id>>, template)

\* A lookup by template id alone, whoever announced the template.
NetFlowV9TemplateCache_get_AnyScope(cache, exporter, source_id, template_id) ==
    IF \E k \in DOMAIN cache : k[3] = template_id
    THEN cache[CHOOSE k \in DOMAIN cache : k[3] = template_id]
    ELSE None

\* put that keeps the template a key already has
NetFlowV9TemplateCache_put_KeepingFirst(cache, exporter, source_id, template) ==
    IF <<exporter, source_id, template.template_id>> \in DOMAIN cache THEN cache
    ELSE DictSet(cache, <<exporter, source_id, template.template_id>>, template)

NetFlowV9TemplateCache_put(cache, exporter, source_id, template) ==
    DictSet(cache, <<exporter, source_id, template.template_id>>, template)

\* self._templates.get((exporter, source_id), {}).get(template_id)
NetFlowV9TemplateCache_get(cache, exporter, source_id, template_id) ==
    DictGet(cache, <<exporter, source_id, template_id>>, None)

\* NFV9_FIELD.get(field_type); "" stands for None.
NFV9_FIELD(t) ==
    CASE t = 8 -> "src_ipv4"
      [] t = 12 -> "dst_ipv4"
      [] t = 7 -> "src_port"
      [] t = 11 -> "dst_port"
      [] t = 4 -> "proto"
      [] t = 1 -> "bytes"
      [] t = 2 -> "packets"
      [] OTHER -> ""

(***************************************************************************)
(* NetFlow v5                                                               *)
(***************************************************************************)
RECURSIVE V5Records(_, _, _, _)
\* for i in range(count): one FlowRecord per 48-byte record
V5Records(data, i, count, ts) ==
    IF i >= count THEN <<>>
    ELSE LET off == 24 + i * 48
         IN <<FlowRecord(ts,
                         _ipv4_from_u32(ToNum(Slice(data, off, off + 4))),
                         _ipv4_from_u32(ToNum(Slice(data, off + 4, off + 8))),
                         ToNum(Slice(data, off + 32, off + 34)),
                         ToNum(Slice(data, off + 34, off + 36)),
                         StrOfInt(ToNum(Slice(data, off + 38, off + 39))),
                         0,
                         ToNum(Slice(data, off + 20, off + 24)),
                         ToNum(Slice(data, off + 16, off + 20)))>>
            \o V5Records(data, i + 1, count, ts)

\* _decode_v5 without "count = min(count, max_records)"
_decode_v5_Uncapped(data, now) ==
    IF Len(data) < 24 THEN <<>>
    ELSE IF U16(data, 0) # 5 THEN <<>>
    ELSE LET unix_secs == U32(data, 8)
         IN V5Records(data, 0, U16(data, 2), IF unix_secs # 0 THEN unix_secs ELSE now)

_decode_v5(data, now) ==
    IF Len(data) < 24 THEN <<>>
    ELSE IF U16(data, 0) # 5 THEN <<>>
    ELSE LET count == U16(data, 2)
             unix_secs == U32(data, 8)
             ts == IF unix_secs # 0 THEN unix_secs ELSE now
             max_records == Max(0, (Len(data) - 24) \div 48)
         IN V5Records(data, 0, Min(count, max_records), ts)

(***************************************************************************)
(* NetFlow v9                                                               *)
(***************************************************************************)
RECURSIVE V9TemplateFields(_, _, _, _)
\* for _ in range(field_count): read (field_type, field_length); a specifier
\* that does not fit in the body ends the whole parse (ok = FALSE).
V9TemplateFields(body, off, field_count, fields) ==
    IF field_count = 0 THEN [ok |-> TRUE, off |-> off, fields |-> fields]
    ELSE IF off + 4 > Len(body) THEN [ok |-> FALSE, off |-> off, fields |-> fields]
    ELSE V9TemplateFields(body, off + 4, field_count - 1,
                          Append(fields, _TemplateField(U16(body, off), U16(body, off + 2))))

RECURSIVE V9Templates(_, _, _, _, _)
\* while off + 4 <= len(body): one template record, put into the cache
V9Templates(body, off, exporter, source_id, cache) ==
    IF off + 4 > Len(body) THEN cache
    ELSE LET template_id == U16(body, off)
             field_count == U16(body, off + 2)
             r == V9TemplateFields(body, off + 4, field_count, <<>>)
         IN IF ~r.ok THEN cache
            ELSE V9Templates(body, r.off, exporter, source_id,
                             NetFlowV9TemplateCache_put(cache, exporter, source_id,
                                                        _Template(template_id, r.fields)))

_parse_v9_template_flowset(body, exporter, source_id, cache) ==
    V9Templates(body, 0, exporter, source_id, cache)

RECURSIVE SumFieldLen(_)
SumFieldLen(fields) ==
    IF fields = <<>> THEN 0 ELSE Head(fields).field_len + SumFieldLen(Tail(fields))

RECURSIVE V9RecordFields_Overlapping(_, _, _, _)
\* The loop over tmpl.fields with "p += f.field_len" after the tests that
\* pass a field over, so that a skipped field takes no bytes of the record
V9RecordFields_Overlapping(rec, fields, p, parsed) ==
    IF fields = <<>> THEN parsed
    ELSE LET f == Head(fields)
             vbytes == Slice(rec, p, p + f.field_len)
             name == NFV9_FIELD(f.field_type)
         IN IF name # "" /\ f.field_len \in {1, 2, 4, 8}
            THEN V9RecordFields_Overlapping(rec, Tail(fields), p + f.field_len,
                                            DictSet(parsed, name, ToNum(vbytes)))
            ELSE V9RecordFields_Overlapping(rec, Tail(fields), p, parsed)

RECURSIVE V9RecordFields(_, _, _, _)
\* for f in tmpl.fields: slice the field, map its type, decode widths 1, 2, 4, 8
V9RecordFields(rec, fields, p, parsed) ==
    IF fields = <<>> THEN parsed
    ELSE LET f == Head(fields)
             vbytes == Slice(rec, p, p + f.field_len)
             name == NFV9_FIELD(f.field_type)
         IN V9RecordFields(rec, Tail(fields), p + f.field_len,
                           IF name # "" /\ f.field_len \in {1, 2, 4, 8}
                           THEN DictSet(parsed, name, ToNum(vbytes))
                           ELSE parsed)

RECURSIVE V9DataRecords(_, _, _, _, _)
\* while off + record_len <= len(body): one record; FlowRecord(...) is built
\* when both addresses were parsed, and _ipv4_from_u32 raises on a value that
\* does not fit 32 bits.
V9DataRecords(body, off, record_len, tmpl, ts) ==
    IF off + record_len > Len(body) THEN [flows |-> <<>>, raised |-> FALSE]
    ELSE LET rec == Slice(body, off, off + record_len)
             parsed == V9RecordFields(rec, tmpl.fields, 0, EmptyDict)
             has == {"src_ipv4", "dst_ipv4"} \subseteq DOMAIN parsed
         IN IF has /\ (IPv4Raises(parsed["src_ipv4"]) \/ IPv4Raises(parsed["dst_ipv4"]))
            THEN [flows |-> <<>>, raised |-> TRUE]
            ELSE LET rest == V9DataRecords(body, off + record_len, record_len, tmpl, ts)
                     this == IF has
                             THEN <<FlowRecord(ts,
                                               _ipv4_from_u32(parsed["src_ipv4"]),
                                               _ipv4_from_u32(parsed["dst_ipv4"]),
                                               DictGet(parsed, "src_port", Zero),
                                               DictGet(parsed, "dst_port", Zero),
                                               StrOfInt(DictGet(parsed, "proto", Zero)),
                                               0,
                                               DictGet(parsed, "bytes", Zero),
                                               DictGet(parsed, "packets", Zero))>>
                             ELSE <<>>
                 IN IF rest.raised THEN [flows |-> <<>>, raised |-> TRUE]
                    ELSE [flows |-> this \o rest.flows, raised |-> FALSE]

_parse_v9_data_flowset(body, exporter, source_id, template_id, ts, cache) ==
    LET tmpl == NetFlowV9TemplateCache_get(cache, exporter, source_id, template_id)
    IN IF tmpl = None THEN [flows |-> <<>>, raised |-> FALSE]
       ELSE IF SumFieldLen(tmpl.fields) <= 0 THEN [flows |-> <<>>, raised |-> FALSE]
       ELSE V9DataRecords(body, 0, SumFieldLen(tmpl.fields), tmpl, ts)

RECURSIVE V9FlowSets(_, _, _, _, _, _)
\* while offset + 4 <= len(data): one FlowSet, in wire order
V9FlowSets(data, offset, exporter, source_id, ts, cache) ==
    IF offset + 4 > Len(data) THEN Returned(<<>>, cache)
    ELSE LET flowset_id == U16(data, offset)
             length == U16(data, offset + 2)
             end == offset + length
         IN IF length < 4 \/ end > Len(data) THEN Returned(<<>>, cache)
            ELSE LET body == Slice(data, offset + 4, end)
                     cache1 == IF flowset_id = 0
                               THEN _parse_v9_template_flowset(body, exporter, source_id, cache)
                               ELSE cache
                     got == IF flowset_id \notin {0, 1}
                            THEN _parse_v9_data_flowset(body, exporter, source_id,
                                                        flowset_id, ts, cache)
                            ELSE [flows |-> <<>>, raised |-> FALSE]
                 IN IF got.raised THEN Raised(cache1)
                    ELSE LET rest == V9FlowSets(data, end, exporter, source_id, ts, cache1)
                         IN IF rest.raised THEN Raised(rest.cache)
                            ELSE Returned(got.flows \o rest.flows, rest.cache)

\* A decoder that caches every template of the datagram before it reads the
\* data flowsets.
_decode_v9_TemplatesFirst(data, exporter, cache, now) ==
    IF Len(data) < 20 THEN Returned(<<>>, cache)
    ELSE IF U16(data, 0) # 9 THEN Returned(<<>>, cache)
    ELSE LET unix_secs == U32(data, 8)
             source_id == U32(data, 16)
             ts == IF unix_secs # 0 THEN unix_secs ELSE now
             first == V9FlowSets(data, 20, exporter, source_id, ts, cache)
         IN V9FlowSets(data, 20, exporter, source_id, ts, first.cache)

_decode_v9(data, exporter, cache, now) ==
    IF Len(data) < 20 THEN Returned(<<>>, cache)
    ELSE IF U16(data, 0) # 9 THEN Returned(<<>>, cache)
    ELSE LET unix_secs == U32(data, 8)
             source_id == U32(data, 16)
             ts == IF unix_secs # 0 THEN unix_secs ELSE now
         IN V9FlowSets(data, 20, exporter, source_id, ts, cache)

decode_netflow(data, exporter, cache, now) ==
    IF Len(data) < 2 THEN Returned(<<>>, cache)
    ELSE IF U16(data, 0) = 5 THEN Returned(_decode_v5(data, now), cache)
    ELSE IF U16(data, 0) = 9 THEN _decode_v9(data, exporter, cache, now)
    ELSE Returned(<<>>, cache)

\* jflow_udp/decoder.py: return decode_netflow(data, exporter=exporter)
\* decode_jflow that leaves the exporter at decode_netflow's default
decode_jflow_Unnamed(data, exporter, cache, now) == decode_netflow(data, "unknown", cache, now)

decode_jflow(data, exporter, cache, now) == decode_netflow(data, exporter, cache, now)

(***************************************************************************)
(* IPFIX (ipfix_udp/decoder.py)                                             *)
(***************************************************************************)
\* enterprise is None (<<"None">>) or the enterprise number.
_IPFIXField(ie_id, length, enterprise) ==
    [ie_id |-> ie_id, length |-> length, enterprise |-> enterprise]

_IPFIXTemplate(template_id, fields) == [template_id |-> template_id, fields |-> fields]

IPFIXTemplateCache_put(cache, exporter, obs_domain, template) ==
    DictSet(cache, <<exporter, obs_domain, template.template_id>>, template)

IPFIXTemplateCache_get(cache, exporter, obs_domain, template_id) ==
    DictGet(cache, <<exporter, obs_domain, template_id>>, None)

\* IPFIX_IE.get(ie_id); "" stands for None.
IPFIX_IE(t) ==
    CASE t = 8 -> "src_ipv4"
      [] t = 12 -> "dst_ipv4"
      [] t = 7 -> "src_port"
      [] t = 11 -> "dst_port"
      [] t = 4 -> "proto"
      [] t = 1 -> "bytes"
      [] t = 2 -> "packets"
      [] OTHER -> ""

RECURSIVE IPFIXTemplateFields(_, _, _, _)
\* for _ in range(field_count): a field specifier, 4 bytes longer when the
\* enterprise bit (0x8000) of the IE id is set
IPFIXTemplateFields(body, off, field_count, fields) ==
    IF field_count = 0 THEN [ok |-> TRUE, off |-> off, fields |-> fields]
    ELSE IF off + 4 > Len(body) THEN [ok |-> FALSE, off |-> off, fields |-> fields]
    ELSE LET raw_ie == U16(body, off)
             flen == U16(body, off + 2)
         IN IF raw_ie >= 32768
            THEN IF off + 8 > Len(body) THEN [ok |-> FALSE, off |-> off, fields |-> fields]
                 ELSE IPFIXTemplateFields(body, off + 8, field_count - 1,
                          Append(fields, _IPFIXField(raw_ie - 32768, flen,
                                            <<"ent", ToNum(Slice(body, off + 4, off + 8))>>)))
            ELSE IPFIXTemplateFields(body, off + 4, field_count - 1,
                          Append(fields, _IPFIXField(raw_ie, flen, <<"None">>)))

RECURSIVE IPFIXTemplates(_, _, _, _, _)
IPFIXTemplates(body, off, exporter, obs_domain, cache) ==
    IF off + 4 > Len(body) THEN cache
    ELSE LET template_id == U16(body, off)
             field_count == U16(body, off + 2)
             r == IPFIXTemplateFields(body, off + 4, field_count, <<>>)
         IN IF ~r.ok THEN cache
            ELSE IPFIXTemplates(body, r.off, exporter, obs_domain,
                                IPFIXTemplateCache_put(cache, exporter, obs_domain,
                                                       _IPFIXTemplate(template_id, r.fields)))

_parse_ipfix_template_set(body, exporter, obs_domain, cache) ==
    IPFIXTemplates(body, 0, exporter, obs_domain, cache)

RECURSIVE SumLength(_)
SumLength(fields) ==
    IF fields = <<>> THEN 0 ELSE Head(fields).length + SumLength(Tail(fields))

RECURSIVE IPFIXRecordFields(_, _, _, _)
\* for f in tmpl.fields: an address of width 4 is kept as its dotted text; any
\* mapped field of width 1, 2, 4, 8 as an int.  parsed holds, for the two
\* addresses, str(value), which is how FlowRecord(...) reads them.
IPFIXRecordFields(rec, fields, p, parsed) ==
    IF fields = <<>> THEN parsed
    ELSE LET f == Head(fields)
             vbytes == Slice(rec, p, p + f.length)
             name == IPFIX_IE(f.ie_id)
             isaddr == name \in {"src_ipv4", "dst_ipv4"}
         IN IPFIXRecordFields(rec, Tail(fields), p + f.length,
                IF name = "" THEN parsed
                ELSE IF isaddr /\ f.length = 4
                     THEN DictSet(parsed, name, _ipv4_from_bytes(vbytes))
                ELSE IF f.length \in {1, 2, 4, 8}
                     THEN DictSet(parsed, name,
                                  IF isaddr THEN StrOfInt(ToNum(vbytes)) ELSE ToNum(vbytes))
                ELSE parsed)

RECURSIVE IPFIXDataRecords(_, _, _, _, _)
IPFIXDataRecords(body, off, record_len, tmpl, ts) ==
    IF off + record_len > Len(body) THEN <<>>
    ELSE LET rec == Slice(body, off, off + record_len)
             parsed == IPFIXRecordFields(rec, tmpl.fields, 0, EmptyDict)
         IN (IF {"src_ipv4", "dst_ipv4"} \subseteq DOMAIN parsed
             THEN <<FlowRecord(ts,
                               parsed["src_ipv4"],
                               parsed["dst_ipv4"],
                               DictGet(parsed, "src_port", Zero),
                               DictGet(parsed, "dst_port", Zero),
                               StrOfInt(DictGet(parsed, "proto", Zero)),
                               0,
                               DictGet(parsed, "bytes", Zero),
                               DictGet(parsed, "packets", Zero))>>
             ELSE <<>>)
            \o IPFIXDataRecords(body, off + record_len, record_len, tmpl, ts)

_parse_ipfix_data_set(body, exporter, obs_domain, template_id, ts, cache) ==
    LET tmpl == IPFIXTemplateCache_get(cache, exporter, obs_domain, template_id)
    IN IF tmpl = None THEN <<>>
       ELSE IF SumLength(tmpl.fields) <= 0 THEN <<>>
       ELSE IPFIXDataRecords(body, 0, SumLength(tmpl.fields), tmpl, ts)

RECURSIVE IPFIXSets(_, _, _, _, _, _)
\* while offset + 4 <= len(msg): one set, in wire order
IPFIXSets(msg, offset, exporter, obs_domain, ts, cache) ==
    IF offset + 4 > Len(msg) THEN Returned(<<>>, cache)
    ELSE LET set_id == U16(msg, offset)
             set_len == U16(msg, offset + 2)
             end == offset + set_len
         IN IF set_len < 4 \/ end > Len(msg) THEN Returned(<<>>, cache)
            ELSE LET body == Slice(msg, offset + 4, end)
                     cache1 == IF set_id = 2
                               THEN _parse_ipfix_template_set(body, exporter, obs_domain, cache)
                               ELSE cache
                     got == IF set_id # 2 /\ set_id # 3 /\ set_id >= 256
                            THEN _parse_ipfix_data_set(body, exporter, obs_domain,
                                                       set_id, ts, cache)
                            ELSE <<>>
                     rest == IPFIXSets(msg, end, exporter, obs_domain, ts, cache1)
                 IN Returned(got \o rest.flows, rest.cache)

decode_ipfix(data, exporter, cache, now) ==
    IF Len(data) < 16 THEN Returned(<<>>, cache)
    ELSE IF U16(data, 0) # 10 THEN Returned(<<>>, cache)
    ELSE LET length == U16(data, 2)
             export_time == U32(data, 4)
             obs_domain == U32(data, 12)
             ts == IF export_time # 0 THEN export_time ELSE now
             msg == IF length >= 16 THEN Slice(data, 0, Min(Len(data), length)) ELSE data
         IN IPFIXSets(msg, 16, exporter, obs_domain, ts, cache)

(***************************************************************************)
(* sFlow v5 (sflow_udp/decoder.py): the sampled packet header                *)
(***************************************************************************)
\* Ethernet, IPv4 and the TCP / UDP ports of a sampled header; <<>> stands
\* for None.
_parse_ethernet_ipv4_ports(frame) ==
    IF Len(frame) < 14 THEN <<>>
    ELSE IF U16(frame, 12) # 2048 THEN <<>>
    ELSE IF Len(frame) < 14 + 20 THEN <<>>
    ELSE LET ver_ihl == frame[14 + 1]
             ihl == (ver_ihl % 16) * 4
             proto == frame[14 + 9 + 1]
             src_ip == _ipv4_from_u32(ToNum(Slice(frame, 14 + 12, 14 + 16)))
             dst_ip == _ipv4_from_u32(ToNum(Slice(frame, 14 + 16, 14 + 20)))
             l4_off == 14 + ihl
         IN IF ver_ihl \div 16 # 4 THEN <<>>
            ELSE IF Len(frame) < 14 + ihl THEN <<>>
            ELSE IF proto \in {6, 17}
                 THEN IF Len(frame) < l4_off + 4 THEN <<>>
                      ELSE <<[src |-> src_ip, dst |-> dst_ip,
                              src_port |-> ToNum(Slice(frame, l4_off, l4_off + 2)),
                              dst_port |-> ToNum(Slice(frame, l4_off + 2, l4_off + 4)),
                              proto |-> IF proto = 6 THEN "TCP" ELSE "UDP"]>>
            ELSE <<[src |-> src_ip, dst |-> dst_ip, src_port |-> Zero, dst_port |-> Zero,
                    proto |-> StrOfInt(ToNum(<<proto>>))]>>

\* header_protocol(4), frame_length(4), stripped(4), header_length(4), header
\* bytes: the FlowRecord of the sampled packet, or none.
_decode_sampled_header(record, ts) ==
    IF Len(record) < 16 THEN <<>>
    ELSE LET header == Slice(record, 16, 16 + U32(record, 12))
             parsed == _parse_ethernet_ipv4_ports(header)
         IN IF U32(record, 0) # 1 THEN <<>>
            ELSE IF parsed = <<>> THEN <<>>
            ELSE <<FlowRecord(ts, parsed[1].src, parsed[1].dst, parsed[1].src_port,
                              parsed[1].dst_port, parsed[1].proto, 0,
                              ToNum(Slice(record, 4, 8)), ToNum(<<1>>))>>

(***************************************************************************)
(* The decoders' loops, one iteration at a time.  A scan is a decoder call  *)
(* under way: pc names the loop it is in, off is the read offset into msg   *)
(* (the datagram), boff the read offset into body (the set or sample being  *)
(* parsed), end where the set ends, left and bleft what is left of the      *)
(* counts of the for loops, flows the records collected so far.             *)
(***************************************************************************)
\* No decoder call is under way.
NoScan ==
    [pc |-> "idle", decoder |-> "none", exporter |-> "", msg |-> <<>>, off |-> 0,
     end |-> 0, left |-> 0, body |-> <<>>, boff |-> 0, bleft |-> 0, tmpl |-> None,
     ts |-> 0, sid |-> 0, flows |-> <<>>]

\* _decode_v9 up to its while loop
_decode_v9_Enter(data, exporter, now) ==
    LET s == [NoScan EXCEPT !.decoder = "netflow", !.exporter = exporter, !.msg = data]
    IN IF Len(data) < 20 THEN [s EXCEPT !.pc = "returned"]
       ELSE IF U16(data, 0) # 9 THEN [s EXCEPT !.pc = "returned"]
       ELSE [s EXCEPT !.pc = "sets", !.off = 20, !.sid = U32(data, 16),
                      !.ts = IF U32(data, 8) # 0 THEN U32(data, 8) ELSE now]

\* decode_netflow: the version dispatch; a v5 datagram is decoded at once
decode_netflow_Enter(data, exporter, now) ==
    LET s == [NoScan EXCEPT !.decoder = "netflow", !.exporter = exporter, !.msg = data]
    IN IF Len(data) < 2 THEN [s EXCEPT !.pc = "returned"]
       ELSE IF U16(data, 0) = 5
            THEN [s EXCEPT !.pc = "returned", !.flows = _decode_v5(data, now)]
       ELSE IF U16(data, 0) = 9 THEN _decode_v9_Enter(data, exporter, now)
       ELSE [s EXCEPT !.pc = "returned"]

\* _decode_v9 without "if length < 4: break"
_decode_v9_Step_AnyLength(s, cache) ==
    IF s.off + 4 > Len(s.msg) THEN [s EXCEPT !.pc = "returned"]
    ELSE LET flowset_id == U16(s.msg, s.off)
             end == s.off + U16(s.msg, s.off + 2)
             body == Slice(s.msg, s.off + 4, end)
             tmpl == NetFlowV9TemplateCache_get(cache, s.exporter, s.sid, flowset_id)
         IN IF end > Len(s.msg) THEN [s EXCEPT !.pc = "returned"]
            ELSE IF flowset_id = 0
                 THEN [s EXCEPT !.pc = "templates", !.end = end, !.body = body, !.boff = 0]
            ELSE IF flowset_id = 1 THEN [s EXCEPT !.off = end]
            ELSE IF tmpl = None THEN [s EXCEPT !.off = end]
            ELSE IF SumFieldLen(tmpl.fields) <= 0 THEN [s EXCEPT !.off = end]
            ELSE [s EXCEPT !.pc = "records", !.end = end, !.body = body, !.boff = 0,
                           !.tmpl = tmpl]

\* _decode_v9: one pass of "while offset + 4 <= len(data)", up to the call
\* that parses the FlowSet's body; a data FlowSet whose template is unknown or
\* has record_len <= 0 is passed over at once.
_decode_v9_Step(s, cache) ==
    IF s.off + 4 > Len(s.msg) THEN [s EXCEPT !.pc = "returned"]
    ELSE LET flowset_id == U16(s.msg, s.off)
             length == U16(s.msg, s.off + 2)
             end == s.off + length
             body == Slice(s.msg, s.off + 4, end)
             tmpl == NetFlowV9TemplateCache_get(cache, s.exporter, s.sid, flowset_id)
         IN IF length < 4 THEN [s EXCEPT !.pc = "returned"]
            ELSE IF end > Len(s.msg) THEN [s EXCEPT !.pc = "returned"]
            ELSE IF flowset_id = 0
                 THEN [s EXCEPT !.pc = "templates", !.end = end, !.body = body, !.boff = 0]
            ELSE IF flowset_id = 1 THEN [s EXCEPT !.off = end]
            ELSE IF tmpl = None THEN [s EXCEPT !.off = end]
            ELSE IF SumFieldLen(tmpl.fields) <= 0 THEN [s EXCEPT !.off = end]
            ELSE [s EXCEPT !.pc = "records", !.end = end, !.body = body, !.boff = 0,
                           !.tmpl = tmpl]

\* the parse of the body is over: offset = end
NextSet(s) == [s EXCEPT !.pc = "sets", !.off = s.end]

\* _parse_v9_template_flowset: one pass of "while off + 4 <= len(body)"
_parse_v9_template_flowset_Step(s, cache) ==
    IF s.boff + 4 > Len(s.body) THEN [scan |-> NextSet(s), cache |-> cache]
    ELSE LET r == V9TemplateFields(s.body, s.boff + 4, U16(s.body, s.boff + 2), <<>>)
         IN IF ~r.ok THEN [scan |-> NextSet(s), cache |-> cache]
            ELSE [scan |-> [s EXCEPT !.boff = r.off],
                  cache |-> NetFlowV9TemplateCache_put(cache, s.exporter, s.sid,
                                _Template(U16(s.body, s.boff), r.fields))]

\* _parse_v9_data_flowset: one pass of "while off + record_len <= len(body)"
_parse_v9_data_flowset_Step(s) ==
    LET record_len == SumFieldLen(s.tmpl.fields)
        got == V9DataRecords(Slice(s.body, s.boff, s.boff + record_len), 0, record_len,
                             s.tmpl, s.ts)
    IN IF s.boff + record_len > Len(s.body) THEN NextSet(s)
       ELSE IF got.raised THEN [s EXCEPT !.pc = "raised"]
       ELSE [s EXCEPT !.boff = s.boff + record_len, !.flows = s.flows \o got.flows]

\* decode_ipfix up to its while loop
decode_ipfix_Enter(data, exporter, now) ==
    LET s == [NoScan EXCEPT !.decoder = "ipfix", !.exporter = exporter, !.msg = data]
    IN IF Len(data) < 16 THEN [s EXCEPT !.pc = "returned"]
       ELSE IF U16(data, 0) # 10 THEN [s EXCEPT !.pc = "returned"]
       ELSE [s EXCEPT !.pc = "sets", !.off = 16, !.sid = U32(data, 12),
                      !.ts = IF U32(data, 4) # 0 THEN U32(data, 4) ELSE now,
                      !.msg = IF U16(data, 2) >= 16
                              THEN Slice(data, 0, Min(Len(data), U16(data, 2)))
                              ELSE data]

\* decode_ipfix: one pass of "while offset + 4 <= len(msg)"
decode_ipfix_Step(s, cache) ==
    IF s.off + 4 > Len(s.msg) THEN [s EXCEPT !.pc = "returned"]
    ELSE LET set_id == U16(s.msg, s.off)
             set_len == U16(s.msg, s.off + 2)
             end == s.off + set_len
             body == Slice(s.msg, s.off + 4, end)
             tmpl == IPFIXTemplateCache_get(cache, s.exporter, s.sid, set_id)
         IN IF set_len < 4 THEN [s EXCEPT !.pc = "returned"]
            ELSE IF end > Len(s.msg) THEN [s EXCEPT !.pc = "returned"]
            ELSE IF set_id = 2
                 THEN [s EXCEPT !.pc = "templates", !.end = end, !.body = body, !.boff = 0]
            ELSE IF set_id = 3 THEN [s EXCEPT !.off = end]
            ELSE IF set_id < 256 THEN [s EXCEPT !.off = end]
            ELSE IF tmpl = None THEN [s EXCEPT !.off = end]
            ELSE IF SumLength(tmpl.fields) <= 0 THEN [s EXCEPT !.off = end]
            ELSE [s EXCEPT !.pc = "records", !.end = end, !.body = body, !.boff = 0,
                           !.tmpl = tmpl]

\* _parse_ipfix_template_set: one pass of "while off + 4 <= len(body)"
_parse_ipfix_template_set_Step(s, cache) ==
    IF s.boff + 4 > Len(s.body) THEN [scan |-> NextSet(s), cache |-> cache]
    ELSE LET r == IPFIXTemplateFields(s.body, s.boff + 4, U16(s.body, s.boff + 2), <<>>)
         IN IF ~r.ok THEN [scan |-> NextSet(s), cache |-> cache]
            ELSE [scan |-> [s EXCEPT !.boff = r.off],
                  cache |-> IPFIXTemplateCache_put(cache, s.exporter, s.sid,
                                _IPFIXTemplate(U16(s.body, s.boff), r.fields))]

\* _parse_ipfix_data_set: one pass of "while off + record_len <= len(body)"
_parse_ipfix_data_set_Step(s) ==
    LET record_len == SumLength(s.tmpl.fields)
    IN IF s.boff + record_len > Len(s.body) THEN NextSet(s)
       ELSE [s EXCEPT !.boff = s.boff + record_len,
                      !.flows = s.flows \o IPFIXDataRecords(
                                    Slice(s.body, s.boff, s.boff + record_len), 0,
                                    record_len, s.tmpl, s.ts)]

\* decode_sflow up to "for _ in range(num_samples)"
decode_sflow_Enter(data, now) ==
    LET s == [NoScan EXCEPT !.decoder = "sflow", !.msg = data, !.ts = now]
        off == IF U32(data, 4) = 1 THEN 12 ELSE 24
    IN IF Len(data) < 4 THEN [s EXCEPT !.pc = "returned"]
       ELSE IF U32(data, 0) # 5 THEN [s EXCEPT !.pc = "returned"]
       ELSE IF 4 + 4 > Len(data) THEN [s EXCEPT !.pc = "returned"]
       ELSE IF U32(data, 4) \notin {1, 2} THEN [s EXCEPT !.pc = "returned"]
       ELSE IF off > Len(data) THEN [s EXCEPT !.pc = "returned"]
       ELSE IF off + 20 > Len(data) THEN [s EXCEPT !.pc = "returned"]
       ELSE [s EXCEPT !.pc = "samples", !.off = off + 16, !.left = U32(data, off + 12)]

\* decode_sflow: one pass of "for _ in range(num_samples)", up to the call
\* that decodes the sample's records
decode_sflow_Step(s) ==
    IF s.left = 0 THEN [s EXCEPT !.pc = "returned"]
    ELSE IF s.off + 8 > Len(s.msg) THEN [s EXCEPT !.pc = "returned"]
    ELSE LET sample_tag == U32(s.msg, s.off)
             sample_len == U32(s.msg, s.off + 4)
             sample == Slice(s.msg, s.off + 8, s.off + 8 + sample_len)
             next == [s EXCEPT !.off = s.off + 8 + sample_len, !.left = s.left - 1]
         IN IF s.off + 8 + sample_len > Len(s.msg) THEN [s EXCEPT !.pc = "returned"]
            ELSE IF sample_tag \div 4096 # 0 THEN next
            ELSE IF sample_tag % 4096 = 1
                 THEN IF Len(sample) < 32 THEN next
                      ELSE [next EXCEPT !.pc = "flowrecords", !.body = sample,
                                        !.boff = 32, !.bleft = U32(sample, 28)]
            ELSE IF sample_tag % 4096 = 3
                 THEN IF Len(sample) < 44 THEN next
                      ELSE [next EXCEPT !.pc = "flowrecords", !.body = sample,
                                        !.boff = 44, !.bleft = U32(sample, 40)]
            ELSE next

\* _decode_flow_records: one pass of "for _ in range(record_count)"
_decode_flow_records_Step(s) ==
    IF s.bleft = 0 THEN [s EXCEPT !.pc = "samples"]
    ELSE IF s.boff + 8 > Len(s.body) THEN [s EXCEPT !.pc = "samples"]
    ELSE LET record_tag == U32(s.body, s.boff)
             record_len == U32(s.body, s.boff + 4)
             record == Slice(s.body, s.boff + 8, s.boff + 8 + record_len)
         IN IF s.boff + 8 + record_len > Len(s.body) THEN [s EXCEPT !.pc = "samples"]
            ELSE [s EXCEPT !.boff = s.boff + 8 + record_len, !.bleft = s.bleft - 1,
                           !.flows = s.flows \o
                               (IF record_tag \div 4096 = 0 /\ record_tag % 4096 = 1
                                THEN _decode_sampled_header(record, s.ts)
                                ELSE <<>>)]

(***************************************************************************)
(* Datagrams offered to the decoders.  A datagram is described by its       *)
(* version, its source id / observation domain and its sets, and encoded    *)
(* to bytes the way an exporter (and the repository's test builders) does.  *)
(* A layout is a template's field list, <<type, width>> pairs.              *)
(***************************************************************************)
LayoutPair == <<<<8, 4>>, <<12, 4>>, <<7, 2>>>>

LayoutSwap == <<<<12, 4>>, <<8, 4>>, <<7, 2>>>>

LayoutNoAddr == <<<<4, 1>>, <<1, 4>>>>

\* A source address declared w bytes wide, then a 4-byte destination address.
LayoutSrcWidth(w) == <<<<8, w>>, <<12, 4>>>>

\* One record of 12 bytes: 10.0.0.1, 10.0.0.2, port 443, protocol 6, pad.
BodyFull == <<10, 0, 0, 1, 10, 0, 0, 2, 1, 187, 6, 0>>

\* Too short for one record of any layout above.
BodyShort == <<10, 0, 0, 1>>

\* 12 bytes whose first four are zero.
BodyLow == <<0, 0, 0, 0, 10, 0, 0, 1, 10, 0, 0, 2>>

TemplateSet(tid, layout) == [kind |-> "template", tid |-> tid, layout |-> layout, body |-> <<>>]

DataSet(tid, body) == [kind |-> "data", tid |-> tid, layout |-> <<>>, body |-> body]

\* A set whose length field says length, whatever its body is
MisdeclaredSet(tid, length, body) ==
    [kind |-> "misdeclared", tid |-> tid, layout |-> <<>>, body |-> body, length |-> length]

Datagram(ver, sid, sets) == [ver |-> ver, sid |-> sid, sets |-> sets]

RECURSIVE EncodeLayout(_)
EncodeLayout(layout) ==
    IF layout = <<>> THEN <<>>
    ELSE BE16(Head(layout)[1]) \o BE16(Head(layout)[2]) \o EncodeLayout(Tail(layout))

\* id(2), length(2), body; a template set has id 0 in v9 and 2 in IPFIX.
EncodeSet(ver, set) ==
    LET body == IF set.kind = "template"
                THEN BE16(set.tid) \o BE16(Len(set.layout)) \o EncodeLayout(set.layout)
                ELSE set.body
        id == IF set.kind = "template" THEN (IF ver = 9 THEN 0 ELSE 2) ELSE set.tid
        length == IF set.kind = "misdeclared" THEN set.length ELSE 4 + Len(body)
    IN BE16(id) \o BE16(length) \o body

RECURSIVE EncodeSets(_, _)
EncodeSets(ver, sets) ==
    IF sets = <<>> THEN <<>> ELSE EncodeSet(ver, Head(sets)) \o EncodeSets(ver, Tail(sets))

\* v9: version, count, sysUptime, unix_secs, seq, source_id (20 bytes);
\* IPFIX: version, length, export time, seq, observation domain (16 bytes).
\* A description with a length field has that in the header's length.
Encode(dg) ==
    LET sets == EncodeSets(dg.ver, dg.sets)
        length == IF "length" \in DOMAIN dg THEN dg.length ELSE 16 + Len(sets)
    IN IF dg.ver = 9
       THEN BE16(9) \o BE16(Len(dg.sets)) \o BE32(0) \o BE32(1000) \o BE32(0)
            \o BE32(dg.sid) \o sets
       ELSE BE16(10) \o BE16(length) \o BE32(1000) \o BE32(0)
            \o BE32(dg.sid) \o sets

(***************************************************************************)
(* baseline_anomaly/baseline.py                                            *)
(***************************************************************************)
\* BaselinePoint(): mean 0.0, var 0.0, n 0
BaselinePoint == [mean |-> FZero, var |-> FZero, n |-> 0, last_update_ts |-> 0]

\* BaselinePoint.update(x, alpha) at time.time() = time
BaselinePoint_update(pt, x, alpha, time) ==
    IF pt.n = 0
    THEN [mean |-> x, var |-> FZero, n |-> 1, last_update_ts |-> time]
    ELSE LET residual == FSub(x, pt.mean)
             keep == FSub(FInt(1), alpha)
         IN [mean |-> FAdd(FMul(alpha, x), FMul(keep, pt.mean)),
             var |-> FAdd(FMul(alpha, FMul(residual, residual)), FMul(keep, pt.var)),
             n |-> pt.n + 1,
             last_update_ts |-> time]

\* BaselinePoint.std(): math.sqrt(max(self.var, 0.0))
BaselinePoint_std(pt) == FSqrt(IF pt.var.neg THEN FZero ELSE pt.var)

RECURSIVE Insert(_, _)
\* v put into the sorted list s, after the items not above it
Insert(s, v) ==
    IF s = <<>> THEN <<v>>
    ELSE IF FLess(v, Head(s)) THEN <<v>> \o s
    ELSE <<Head(s)>> \o Insert(Tail(s), v)

RECURSIVE Sorted(_)
\* sorted(values)
Sorted(values) ==
    IF values = <<>> THEN values
    ELSE Insert(Sorted(SubSeq(values, 1, Len(values) - 1)), values[Len(values)])

\* percentile(values, p), p a whole number
percentile(values, p) ==
    LET Between(values_sorted, k, f, c) ==
            IF f = c THEN values_sorted[f + 1]
            ELSE FAdd(FMul(values_sorted[f + 1], FSub(FInt(c), k)),
                      FMul(values_sorted[c + 1], FSub(k, FInt(f))))
        AtRank(values_sorted, k) == Between(values_sorted, k, FFloor(k), FCeil(k))
        Of(values_sorted) ==
            IF values = <<>> THEN FZero
            ELSE IF p <= 0 THEN values_sorted[1]
            ELSE IF p >= 100 THEN values_sorted[Len(values_sorted)]
            ELSE AtRank(values_sorted,
                        FMul(FInt(Len(values_sorted) - 1), FDiv(FInt(p), FInt(100))))
    IN Of(Sorted(values))

\* compute_window_stats(latencies_ms)
compute_window_stats(latencies_ms) ==
    IF latencies_ms = <<>> THEN [p50 |-> FZero, p95 |-> FZero, count |-> 0]
    ELSE [p50 |-> percentile(latencies_ms, 50),
          p95 |-> percentile(latencies_ms, 95),
          count |-> Len(latencies_ms)]

\* BaselineModel.get_point(key, metric); the point it makes for a key it has
\* not seen is the one update() then fills.
get_point(_points, key, metric) == DictGet(_points, <<key, metric>>, BaselinePoint)

\* BaselineModel.update(key, metric, value, alpha)
BaselineModel_update(_points, key, metric, value, alpha, time) ==
    DictSet(_points, <<key, metric>>,
            BaselinePoint_update(get_point(_points, key, metric), value, alpha, time))

\* float("inf"): no number has a zero mantissa and this exponent
Inf == [neg |-> FALSE, m |-> <<>>, e |-> 1]

\* What detect_anomaly returns: None, or (mean, std, zscore).
NoAnomaly == [anomaly |-> FALSE]

Anomaly(mean, std, zscore) == [anomaly |-> TRUE, mean |-> mean, std |-> std, zscore |-> zscore]

\* 1e-9, under which a standard deviation counts as none
Tiny == Dec(1, 1000000000)

\* detect_anomaly without the test of pt.n
detect_anomaly_Unseasoned(_points, key, metric, current_value, z_threshold, min_updates) ==
    LET pt == get_point(_points, key, metric)
        std == BaselinePoint_std(pt)
        z == FDiv(FSub(current_value, pt.mean), std)
    IN IF FLeq(std, Tiny)
       THEN IF current_value # pt.mean THEN Anomaly(pt.mean, std, Inf) ELSE NoAnomaly
       ELSE IF FLeq(z_threshold, FAbs(z)) THEN Anomaly(pt.mean, std, z)
       ELSE NoAnomaly

\* BaselineModel.detect_anomaly(key, metric, current_value, z_threshold, min_updates)
detect_anomaly(_points, key, metric, current_value, z_threshold, min_updates) ==
    LET Scored(pt, std, z) ==
            IF FLeq(z_threshold, FAbs(z)) THEN Anomaly(pt.mean, std, z) ELSE NoAnomaly
        Judged_(pt, std) ==
            IF pt.n < min_updates THEN NoAnomaly
            ELSE IF FLeq(std, Tiny)
            THEN IF current_value # pt.mean THEN Anomaly(pt.mean, std, Inf) ELSE NoAnomaly
            ELSE Scored(pt, std, FDiv(FSub(current_value, pt.mean), std))
        Of(pt) == Judged_(pt, BaselinePoint_std(pt))
    IN Of(get_point(_points, key, metric))

(***************************************************************************)
(* baseline_anomaly/shift.py.  A dict is the list of its items in the       *)
(* order the keys were first set, as Python keeps them.  The counts are     *)
(* floats that are whole numbers, kept as naturals.                         *)
(***************************************************************************)
Keys(items) == {items[i][1] : i \in 1..Len(items)}

ItemGet(items, k, default) ==
    IF k \in Keys(items)
    THEN items[CHOOSE i \in 1..Len(items) : items[i][1] = k][2]
    ELSE default

RECURSIVE SumCounts(_)
\* sum(counts.values())
SumCounts(counts) ==
    IF counts = <<>> THEN 0 ELSE Head(counts)[2] + SumCounts(Tail(counts))

\* _normalize(counts)
_normalize(counts) ==
    LET total == SumCounts(counts)
    IN IF total <= 0 THEN <<>>
       ELSE [i \in 1..Len(counts) |->
               <<counts[i][1], FDiv(FInt(counts[i][2]), FInt(total))>>]

RECURSIVE Enumerated(_)
\* The members of a set, one after the other
Enumerated(S) ==
    IF S = {} THEN <<>>
    ELSE LET k == CHOOSE x \in S : TRUE
         IN Append(Enumerated(S \ {k}), k)

RECURSIVE SumOver(_, _, _)
\* sum(abs(p.get(k, 0.0) - q.get(k, 0.0)) for k in keys)
SumOver(keys, p, q) ==
    IF keys = <<>> THEN FZero
    ELSE LET k == keys[Len(keys)]
         IN FAdd(SumOver(SubSeq(keys, 1, Len(keys) - 1), p, q),
                 FAbs(FSub(ItemGet(p, k, FZero), ItemGet(q, k, FZero))))

\* l1_distance(p, q) over the keys of p alone
l1_distance_OfPrior(p, q, order) ==
    LET mine(k) == k \in Keys(p)
    IN SumOver(SelectSeq(order, mine), p, q)

\* l1_distance(p, q).  Iterating the set of the keys yields them in an order
\* that hangs on the hashes of the strings, which differ from one process to
\* the next: order lists keys, those of p and q among them, in that order.
l1_distance(p, q, order) ==
    LET mine(k) == k \in Keys(p) \cup Keys(q)
    IN SumOver(SelectSeq(order, mine), p, q)

RECURSIVE InsertByShare(_, _)
InsertByShare(s, item) ==
    IF s = <<>> THEN <<item>>
    ELSE IF FLess(Head(s)[2], item[2]) THEN <<item>> \o s
    ELSE <<Head(s)>> \o InsertByShare(Tail(s), item)

RECURSIVE ByShare(_)
ByShare(dist) ==
    IF dist = <<>> THEN dist
    ELSE InsertByShare(ByShare(SubSeq(dist, 1, Len(dist) - 1)), dist[Len(dist)])

\* top_k(dist, k=5): sorted by share, largest first, ties in dict order
top_k(dist) == SubSeq(ByShare(dist), 1, Min(5, Len(dist)))

NoShift == [shift |-> FALSE]

\* update_and_detect that stores the distribution of a call short of min_total
update_and_detect_Storing(_prev, dimension, counts, threshold, min_total, window_seconds, time, order) ==
    LET current == _normalize(counts)
        after == DictSet(_prev, dimension, [dist |-> current, ts |-> time])
        known == dimension \in DOMAIN _prev
        dist == l1_distance(_prev[dimension].dist, current, order)
    IN IF FLess(FInt(SumCounts(counts)), min_total) THEN [event |-> NoShift, _prev |-> after]
       ELSE IF ~known THEN [event |-> NoShift, _prev |-> after]
       ELSE IF FLeq(threshold, dist)
       THEN [event |-> [shift |-> TRUE, dimension |-> dimension,
                        old_top |-> top_k(_prev[dimension].dist),
                        new_top |-> top_k(current), distance |-> dist,
                        window_seconds |-> window_seconds, ts |-> time],
             _prev |-> after]
       ELSE [event |-> NoShift, _prev |-> after]

\* update_and_detect that keeps the prior when it returns an event
update_and_detect_KeepingPrior(_prev, dimension, counts, threshold, min_total, window_seconds, time, order) ==
    LET current == _normalize(counts)
        after == DictSet(_prev, dimension, [dist |-> current, ts |-> time])
        known == dimension \in DOMAIN _prev
        dist == l1_distance(_prev[dimension].dist, current, order)
    IN IF FLess(FInt(SumCounts(counts)), min_total) THEN [event |-> NoShift, _prev |-> _prev]
       ELSE IF ~known THEN [event |-> NoShift, _prev |-> after]
       ELSE IF FLeq(threshold, dist)
       THEN [event |-> [shift |-> TRUE, dimension |-> dimension,
                        old_top |-> top_k(_prev[dimension].dist),
                        new_top |-> top_k(current), distance |-> dist,
                        window_seconds |-> window_seconds, ts |-> time],
             _prev |-> _prev]
       ELSE [event |-> NoShift, _prev |-> after]

\* ShiftModel.update_and_detect(dimension, counts, threshold, min_total,
\* window_seconds): the event or None, and self._prev, self._prev_ts after;
\* order as in l1_distance
update_and_detect(_prev, dimension, counts, threshold, min_total, window_seconds, time, order) ==
    LET current == _normalize(counts)
        known == dimension \in DOMAIN _prev
        prev == _prev[dimension].dist
        dist == l1_distance(prev, current, order)
        after == DictSet(_prev, dimension, [dist |-> current, ts |-> time])
    IN IF FLess(FInt(SumCounts(counts)), min_total) THEN [event |-> NoShift, _prev |-> _prev]
       ELSE IF ~known THEN [event |-> NoShift, _prev |-> after]
       ELSE IF FLeq(threshold, dist)
       THEN [event |-> [shift |-> TRUE, dimension |-> dimension, old_top |-> top_k(prev),
                        new_top |-> top_k(current), distance |-> dist,
                        window_seconds |-> window_seconds, ts |-> time],
             _prev |-> after]
       ELSE [event |-> NoShift, _prev |-> after]

(***************************************************************************)
(* baseline_anomaly/capability.py                                          *)
(***************************************************************************)
\* _key_builder(flow, mode); a FlowRecord has no exporter attribute
_key_builder(flow, mode) ==
    CASE mode = "exporter" -> <<"exporter:unknown">>
      [] mode = "src" -> <<"src", flow.src>>
      [] mode = "dst" -> <<"dst", flow.dst>>
      [] mode = "pair" -> <<"pair", flow.src, flow.dst>>
      [] mode = "proto" -> <<"proto", flow.proto>>
      [] OTHER -> <<"all", mode>>

\* BaselineAnomalyCapability.__init__: the settings
Defaults ==
    [_window_seconds |-> 60, _min_samples_per_key |-> 20, _alpha |-> Dec(15, 100),
     _z_threshold |-> FInt(4), _min_updates |-> 10, _shift_threshold |-> Dec(7, 10),
     _shift_min_total |-> FInt(200), _group_mode |-> "pair", _cooldown_seconds |-> 120]

\* _in_cooldown(key) that never holds an alert back
_in_cooldown_Never(_last_alert_ts, key, cooldown_seconds, time) == FALSE

\* _in_cooldown(key)
_in_cooldown(_last_alert_ts, key, cooldown_seconds, time) ==
    time - DictGet(_last_alert_ts, key, 0) < cooldown_seconds

\* _mark_alert(key)
_mark_alert(_last_alert_ts, key, time) == DictSet(_last_alert_ts, key, time)

RECURSIVE Grouped(_, _, _)
\* lat_by_key: for each key, in the order the keys first come, the
\* latencies of its flows in the order of the flows
Grouped(flows, mode, lat_by_key) ==
    IF flows = <<>> THEN lat_by_key
    ELSE LET k == _key_builder(Head(flows), mode)
             latency == Head(flows).latency_ms
             at == CHOOSE i \in 1..Len(lat_by_key) : lat_by_key[i][1] = k
         IN Grouped(Tail(flows), mode,
                    IF k \in Keys(lat_by_key)
                    THEN [lat_by_key EXCEPT ![at] = <<k, Append(@[2], latency)>>]
                    ELSE Append(lat_by_key, <<k, <<latency>>>>))

\* count_by_key
Counted(lat_by_key) == [i \in 1..Len(lat_by_key) |-> <<lat_by_key[i][1], Len(lat_by_key[i][2])>>]

\* analyze_once, lines 222-248, for one metric of one key: the event, unless
\* nothing was detected or the alert key is in cooldown.  seen remembers what
\* was detected.
Emit(acc, key, metric, current, det, sample_count, self, time) ==
    LET alert_key == <<"anomaly", key, metric>>
        held == det.anomaly /\ _in_cooldown(acc._last_alert_ts, alert_key, self._cooldown_seconds, time)
        note == [key |-> key, metric |-> metric, current |-> current, det |-> det,
                 emitted |-> det.anomaly /\ ~held]
        ev == [key |-> key, metric |-> metric, current |-> current,
               baseline_mean |-> det.mean, baseline_std |-> det.std, zscore |-> det.zscore,
               window_seconds |-> self._window_seconds, sample_count |-> sample_count,
               ts |-> time]
    IN IF ~det.anomaly \/ held
       THEN [acc EXCEPT !.seen = Append(@, note)]
       ELSE [acc EXCEPT !.seen = Append(@, note),
                        !.anomalies = Append(@, ev),
                        !._last_alert_ts = _mark_alert(@, alert_key, time)]

\* The body of the loop over lat_by_key with the baseline updated before the
\* anomalies are looked for.
analyze_key_UpdateFirst(acc, item, self, time) ==
    LET key == item[1]
        lats == item[2]
        stats == compute_window_stats(lats)
        updated == BaselineModel_update(
                       BaselineModel_update(acc._points, key, "p50_ms", stats.p50, self._alpha, time),
                       key, "p95_ms", stats.p95, self._alpha, time)
        a1 == detect_anomaly(updated, key, "p50_ms", stats.p50,
                             self._z_threshold, self._min_updates)
        a2 == detect_anomaly(updated, key, "p95_ms", stats.p95,
                             self._z_threshold, self._min_updates)
        emitted == Emit(Emit(acc, key, "p50_ms", stats.p50, a1, Len(lats), self, time),
                        key, "p95_ms", stats.p95, a2, Len(lats), self, time)
    IN IF Len(lats) < self._min_samples_per_key THEN acc
       ELSE [emitted EXCEPT !._points = updated]

\* analyze_key without "if len(lats) < self._min_samples_per_key: continue"
analyze_key_AnySamples(acc, item, self, time) ==
    LET key == item[1]
        lats == item[2]
        Looked(stats) ==
            Emit(Emit(acc, key, "p50_ms", stats.p50,
                      detect_anomaly(acc._points, key, "p50_ms", stats.p50,
                                     self._z_threshold, self._min_updates),
                      Len(lats), self, time),
                 key, "p95_ms", stats.p95,
                 detect_anomaly(acc._points, key, "p95_ms", stats.p95,
                                self._z_threshold, self._min_updates),
                 Len(lats), self, time)
        Of(stats) ==
            [Looked(stats) EXCEPT !._points =
                BaselineModel_update(
                    BaselineModel_update(@, key, "p50_ms", stats.p50, self._alpha, time),
                    key, "p95_ms", stats.p95, self._alpha, time)]
    IN Of(compute_window_stats(lats))

\* analyze_once, lines 185-269: the body of the loop over lat_by_key
analyze_key(acc, item, self, time) ==
    LET key == item[1]
        lats == item[2]
        Looked(stats) ==
            Emit(Emit(acc, key, "p50_ms", stats.p50,
                      detect_anomaly(acc._points, key, "p50_ms", stats.p50,
                                     self._z_threshold, self._min_updates),
                      Len(lats), self, time),
                 key, "p95_ms", stats.p95,
                 detect_anomaly(acc._points, key, "p95_ms", stats.p95,
                                self._z_threshold, self._min_updates),
                 Len(lats), self, time)
        Of(stats) ==
            [Looked(stats) EXCEPT !._points =
                BaselineModel_update(
                    BaselineModel_update(@, key, "p50_ms", stats.p50, self._alpha, time),
                    key, "p95_ms", stats.p95, self._alpha, time)]
    IN IF Len(lats) < self._min_samples_per_key THEN acc
       ELSE Of(compute_window_stats(lats))

RECURSIVE analyze_keys(_, _, _, _)
analyze_keys(acc, lat_by_key, self, time) ==
    IF lat_by_key = <<>> THEN acc
    ELSE analyze_keys(analyze_key(acc, Head(lat_by_key), self, time),
                      Tail(lat_by_key), self, time)

\* analyze_once(ctx) on flows = ctx.store.recent(seconds=self._window_seconds):
\* what it returns, what it leaves in the capability, and what it saw; order
\* as in l1_distance
analyze_once(flows, _points, _last_alert_ts, _prev, self, time, order) ==
    LET dimension == <<"count_by", self._group_mode>>
        alert_key == <<"shift", dimension>>
        Result(lat_by_key, acc, sh, held) ==
            [ok |-> TRUE,
             group_mode |-> self._group_mode,
             window_seconds |-> self._window_seconds,
             keys_seen |-> Len(lat_by_key),
             anomalies |-> acc.anomalies,
             shift |-> IF held THEN NoShift ELSE sh.event,
             detected |-> sh.event,
             seen |-> acc.seen,
             lat_by_key |-> lat_by_key,
             _points |-> acc._points,
             _last_alert_ts |-> IF sh.event.shift /\ ~held
                                THEN _mark_alert(acc._last_alert_ts, alert_key, time)
                                ELSE acc._last_alert_ts,
             _prev |-> sh._prev]
        Shifted(lat_by_key, acc, sh) ==
            Result(lat_by_key, acc, sh,
                   sh.event.shift
                   /\ _in_cooldown(acc._last_alert_ts, alert_key, self._cooldown_seconds, time))
        Of(lat_by_key) ==
            Shifted(lat_by_key,
                    analyze_keys([_points |-> _points, _last_alert_ts |-> _last_alert_ts,
                                  anomalies |-> <<>>, seen |-> <<>>],
                                 lat_by_key, self, time),
                    update_and_detect(_prev, dimension, Counted(lat_by_key),
                                      self._shift_threshold, self._shift_min_total,
                                      self._window_seconds, time, order))
    IN Of(Grouped(flows, self._group_mode, <<>>))

(***************************************************************************)
(* core/models.py, core/dedupe.py, core/monitor.py                          *)
(***************************************************************************)
\* FlowRecord.key(): the text made of src, src_port, dst, dst_port and proto,
\* as these five parts
FlowRecord_key(f) == <<f.src, f.src_port, f.dst, f.dst_port, f.proto>>

\* AlertDeduper.should_alert(key) with time.time() = time, stamping the key
\* whatever it returns
should_alert_Stamping(last_alert_ts, cooldown_seconds, k, time) ==
    [returned |-> k \notin DOMAIN last_alert_ts
                    \/ time - last_alert_ts[k] >= cooldown_seconds,
     last_alert_ts |-> DictSet(last_alert_ts, k, time)]

\* AlertDeduper.should_alert(key) with time.time() = time: what it returns,
\* and self.last_alert_ts after
should_alert(last_alert_ts, cooldown_seconds, k, time) ==
    IF k \notin DOMAIN last_alert_ts
    THEN [returned |-> TRUE, last_alert_ts |-> DictSet(last_alert_ts, k, time)]
    ELSE IF time - last_alert_ts[k] >= cooldown_seconds
    THEN [returned |-> TRUE, last_alert_ts |-> DictSet(last_alert_ts, k, time)]
    ELSE [returned |-> FALSE, last_alert_ts |-> last_alert_ts]

\* LatencyMonitor.__init__()
LatencyMonitor ==
    [threshold_ms |-> FInt(150), window_seconds |-> 300, min_samples |-> 5]

\* LatencyMonitor.set_thresholds(**kw): the arguments given (not None) are the
\* fields of kw.  The monitor and the cooldown of its deduper after.
set_thresholds(self, cooldown_seconds, kw) ==
    [self |-> [threshold_ms |-> IF "threshold_ms" \in DOMAIN kw
                                THEN kw.threshold_ms ELSE self.threshold_ms,
               window_seconds |-> IF "window_seconds" \in DOMAIN kw
                                  THEN kw.window_seconds ELSE self.window_seconds,
               min_samples |-> IF "min_samples" \in DOMAIN kw
                               THEN kw.min_samples ELSE self.min_samples],
     cooldown_seconds |-> IF "cooldown_seconds" \in DOMAIN kw
                          THEN kw.cooldown_seconds ELSE cooldown_seconds]

\* analyze: groups[f.key()].append(float(f.latency_ms)) for f in flows, the
\* dict as the list of its items in insertion order
groups(flows) ==
    LET first(i) == \A j \in 1..(i - 1) : FlowRecord_key(flows[j]) # FlowRecord_key(flows[i])
        firsts == SelectSeq([i \in 1..Len(flows) |-> i], first)
    IN [n \in 1..Len(firsts) |->
           LET k == FlowRecord_key(flows[firsts[n]])
               same(f) == FlowRecord_key(f) = k
               of_key == SelectSeq(flows, same)
           IN <<k, [i \in 1..Len(of_key) |-> of_key[i].latency_ms]>>]

RECURSIVE sum(_)
\* sum(vals)
sum(vals) ==
    IF vals = <<>> THEN FZero
    ELSE FAdd(sum(SubSeq(vals, 1, Len(vals) - 1)), vals[Len(vals)])

\* vals_sorted[int(p * (len(vals_sorted) - 1))]
nearest_rank(vals_sorted, p) ==
    vals_sorted[FFloor(FMul(p, FInt(Len(vals_sorted) - 1))) + 1]

\* analyze: the row of one group
row(item) ==
    LET vals == item[2]
        vals_sorted == Sorted(vals)
    IN [flow |-> item[1],
        samples |-> Len(vals),
        avg_ms |-> FDiv(sum(vals), FInt(Len(vals))),
        p50_ms |-> nearest_rank(vals_sorted, Dec(50, 100)),
        p95_ms |-> nearest_rank(vals_sorted, Dec(95, 100)),
        max_ms |-> vals_sorted[Len(vals_sorted)]]

RECURSIVE InsertByP95(_, _)
\* r put into the list s sorted by p95_ms, highest first, after the rows
\* not below it
InsertByP95(s, r) ==
    IF s = <<>> THEN <<r>>
    ELSE IF FLess(s[Len(s)].p95_ms, r.p95_ms)
    THEN Append(InsertByP95(SubSeq(s, 1, Len(s) - 1), r), s[Len(s)])
    ELSE Append(s, r)

RECURSIVE ByP95(_)
\* rows.sort(key=lambda r: r["p95_ms"], reverse=True)
ByP95(rows) ==
    IF rows = <<>> THEN rows
    ELSE InsertByP95(ByP95(SubSeq(rows, 1, Len(rows) - 1)), rows[Len(rows)])

\* rows[:n]
Take(rows, n) == SubSeq(rows, 1, Min(n, Len(rows)))

\* analyze: a group offends
offends(self, r) ==
    r.samples >= self.min_samples /\ FLeq(self.threshold_ms, r.p95_ms)

\* analyze, every group with enough samples offending
analyze_AnyP95(self, flows) ==
    LET items == groups(flows)
        summary == [i \in DOMAIN items |-> row(items[i])]
        offenders == SelectSeq(summary, LAMBDA r : r.samples >= self.min_samples)
    IN [window_seconds |-> self.window_seconds,
        threshold_ms |-> self.threshold_ms,
        min_samples |-> self.min_samples,
        offenders |-> Take(ByP95(offenders), 50),
        top |-> Take(ByP95(summary), 50)]

\* LatencyMonitor.analyze(flows)
analyze(self, flows) ==
    LET items == groups(flows)
        summary == [i \in DOMAIN items |-> row(items[i])]
        offenders == SelectSeq(summary, LAMBDA r : offends(self, r))
    IN [window_seconds |-> self.window_seconds,
        threshold_ms |-> self.threshold_ms,
        min_samples |-> self.min_samples,
        offenders |-> Take(ByP95(offenders), 50),
        top |-> Take(ByP95(summary), 50)]

RECURSIVE build_alerts_from(_, _, _, _, _)
\* build_alerts: the loop over the offenders, acc = [alerts, last_alert_ts].
\* An alert also carries a message, the text of its p95_ms and threshold_ms.
build_alerts_from(offenders, threshold_ms, acc, cooldown_seconds, time) ==
    IF offenders = <<>> THEN acc
    ELSE LET off == Head(offenders)
             asked == should_alert(acc.last_alert_ts, cooldown_seconds, off.flow, time)
         IN build_alerts_from(
                Tail(offenders), threshold_ms,
                [alerts |-> IF asked.returned
                            THEN Append(acc.alerts,
                                        [type |-> "latency_threshold",
                                         flow |-> off.flow,
                                         p95_ms |-> off.p95_ms,
                                         threshold_ms |-> threshold_ms,
                                         samples |-> off.samples,
                                         ts |-> time])
                            ELSE acc.alerts,
                 last_alert_ts |-> asked.last_alert_ts],
                cooldown_seconds, time)

\* LatencyMonitor.build_alerts(analysis) with time.time() = time: the alerts, and
\* self.deduper.last_alert_ts after
build_alerts(analysis, last_alert_ts, cooldown_seconds, time) ==
    build_alerts_from(analysis.offenders, analysis.threshold_ms,
                      [alerts |-> <<>>, last_alert_ts |-> last_alert_ts],
                      cooldown_seconds, time)

(***************************************************************************)
(* core/registry.py                                                         *)
(***************************************************************************)
\* A capability object: its name, and which object it is
Capability(name, id) == [name |-> name, id |-> id]

LoadedCapability(name, instance) == [name |-> name, instance |-> instance]

\* The names, as sorted() puts them
SortedNames == <<"ipfix_udp", "jflow_udp", "json_udp", "netflow_udp", "sflow_udp">>

\* register(cap) that puts the capability in the place of the one registered
register_Replacing(_caps, cap) ==
    [raised |-> IF cap.name \in DOMAIN _caps THEN "ValueError" ELSE "",
     _caps |-> DictSet(_caps, cap.name, LoadedCapability(cap.name, cap))]

\* CapabilityRegistry.register(cap): what it raises, and self._caps after
register(_caps, cap) ==
    IF cap.name \in DOMAIN _caps
    THEN [raised |-> "ValueError", _caps |-> _caps]
    ELSE [raised |-> "", _caps |-> DictSet(_caps, cap.name, LoadedCapability(cap.name, cap))]

\* CapabilityRegistry.get(name)
CapabilityRegistry_get(_caps, name) ==
    IF name \notin DOMAIN _caps
    THEN [raised |-> "KeyError"]
    ELSE [raised |-> "", returned |-> _caps[name].instance]

\* CapabilityRegistry.list(): sorted(self._caps.keys())
list(_caps) ==
    LET registered(name) == name \in DOMAIN _caps
    IN SelectSeq(SortedNames, registered)

(***************************************************************************)
(* State                                                                    *)
(***************************************************************************)
VARIABLES
    _V9_CACHE,      \* netflow_udp/decoder.py: the module-level NetFlowV9TemplateCache
    _IPFIX_CACHE,   \* ipfix_udp/decoder.py: the module-level IPFIXTemplateCache
    family,         \* the decoder family this process runs: "v9" or "ipfix"
    alphabet,       \* the inputs offered to it: "scope" or "wire"
    call,           \* the last decoder call: decoder, exporter, datagram
    result,         \* what it yielded: [flows, raised]
    announced,      \* history: <<family, exporter, sid, tid>> -> the layout most
                    \* recently announced by a template set, before the last call
    ncalls,         \* decoder calls made
    scan,           \* a decoder call taken one loop iteration at a time
    now,            \* time.time(), in whole seconds
    _flows,         \* core/store.py: FlowStore._flows, oldest record first
    maxlen,         \* the maxlen the deque was constructed with
    appended,       \* history of a store on its own: every record appended, in order
    storeOp,        \* the last call made on the store alone, with what recent() returned
    _running,       \* per collector: self._running
    _stop,          \* per collector: self._stop, the asyncio.Event, as is_set()
    _task,          \* per collector: where self._task, the _run() coroutine, stands
    sock,           \* per collector: the UDP socket of its task
    _host,          \* per collector: self._host
    _port,          \* per collector: self._port
    _ingested,      \* per collector: self._ingested
    _dropped,       \* per collector: self._dropped
    stopCall,       \* per collector: where a stop() coroutine stands
    ret,            \* per collector: what the last start() or stop() returned, ""
                    \* from a stop() that waits until a call returns
    pass,           \* the analysis tool call in progress, with its local flows
    handled,        \* history: the last datagram a collector took off its socket
    nrecv,          \* datagrams received
    nstarts,        \* tasks created
    orphans,        \* per collector: tasks still running that self._task no longer names
    bound,          \* per collector: the port its socket was last bound to, 0 before
    config,         \* baseline_anomaly/capability.py: the settings of the capability,
                    \* by attribute
    _points,        \* BaselineModel._points: (key, metric) -> BaselinePoint
    _prev,          \* ShiftModel._prev and _prev_ts: dimension -> distribution, time
    _last_alert_ts, \* BaselineAnomalyCapability._last_alert_ts: alert key -> time
    report,         \* the last analyze_once(): what it returned, with what the pass
                    \* read and what it detected; or the last call on the ShiftModel
                    \* alone
    fed,            \* history: (key, metric) -> the values its baseline was updated with
    lastEvent,      \* history: alert key -> the time of the last event returned for it
    npasses,        \* analyze_once passes made
    nfeeds,         \* batches fed to the store for the baseline capability
    qualified,      \* history: dimension -> the counts of the last update_and_detect
                    \* whose total reached min_total
    monitor,        \* core/monitor.py: the LatencyMonitor, by attribute
    cooldown_seconds,  \* AlertDeduper.cooldown_seconds of monitor.deduper
    last_alert_ts,  \* AlertDeduper.last_alert_ts: flow key -> time
    analysis,       \* what the last analyze() returned
    asked,          \* the last call on the monitor or its deduper, with what it returned
    granted,        \* history: flow key -> the time should_alert last returned True for it
    _caps,          \* core/registry.py: CapabilityRegistry._caps, name -> LoadedCapability
    registryOp      \* the last call on the registry, with what it returned or raised

decodeVars == <<_V9_CACHE, _IPFIX_CACHE, family, alphabet, call, result, announced, ncalls,
               scan>>

storeVars == <<_flows, maxlen, appended, storeOp>>

collectVars == <<_running, _stop, _task, sock, _host, _port, _ingested, _dropped,
                 stopCall, ret, pass, handled, nrecv, nstarts, orphans, bound>>

baselineVars == <<config, _points, _prev, _last_alert_ts, report, fed, lastEvent,
                  npasses, nfeeds, qualified>>

monitorVars == <<monitor, cooldown_seconds, last_alert_ts, analysis, asked, granted>>

registryVars == <<_caps, registryOp>>

analysisVars == <<baselineVars, monitorVars, registryVars>>

vars == <<decodeVars, now, storeVars, collectVars, analysisVars>>

(***************************************************************************)
(* Bounds and input alphabets of the decoder specification                  *)
(***************************************************************************)
MaxCalls == 3

\* One set, or a template set and a data set of the same id in either order.
SetSeqs(tids, layouts, bodies, pairbodies) ==
    {<<TemplateSet(t, l)>> : t \in tids, l \in layouts}
    \cup {<<DataSet(t, b)>> : t \in tids, b \in bodies}
    \cup {<<TemplateSet(t, l), DataSet(t, b)>> : t \in tids, l \in layouts, b \in pairbodies}
    \cup {<<DataSet(t, b), TemplateSet(t, l)>> : t \in tids, l \in layouts, b \in pairbodies}

\* Each datagram with its bytes.
Offered(ver, sids, setseqs) ==
    {[dg |-> Datagram(ver, sid, sets), data |-> Encode(Datagram(ver, sid, sets))] :
        sid \in sids, sets \in setseqs}

\* "scope": several exporters, source ids and template ids, for the claims
\* about what a cached template applies to.
ScopeSetSeqs ==
    SetSeqs({256, 257}, {LayoutPair, LayoutSwap, LayoutNoAddr}, {BodyFull, BodyShort}, {BodyFull})

ScopeV9 == Offered(9, {1, 2}, ScopeSetSeqs)

ScopeIPFIX == Offered(10, {1, 2}, ScopeSetSeqs)

\* "wire": one exporter and one template id, address fields of every width
\* the record loop decodes, for the claims about what a datagram may contain.
WireSetSeqs ==
    SetSeqs({256}, {LayoutSrcWidth(w) : w \in {1, 2, 4, 8}}, {BodyFull, BodyLow}, {BodyFull, BodyLow})

WireV9 == Offered(9, {1}, WireSetSeqs)

WireIPFIX == Offered(10, {1}, WireSetSeqs)

\* "framing": one exporter; a template id below 256 beside one from 256 up,
\* and a well-formed data set followed by a set whose length is below 4 or
\* runs past the end of the datagram, for the claims about set ids and
\* lengths.
FramingSetSeqs ==
    SetSeqs({100, 256}, {LayoutPair}, {BodyFull}, {BodyFull})
    \cup {<<DataSet(256, BodyFull), MisdeclaredSet(256, length, BodyFull)>> : length \in {3, 40}}

\* The IPFIX message with 8 in its header's length
ShortHeader == [ver |-> 10, sid |-> 1, sets |-> <<DataSet(256, BodyFull)>>, length |-> 8]

FramingV9 == Offered(9, {1}, FramingSetSeqs)

FramingIPFIX ==
    Offered(10, {1}, FramingSetSeqs) \cup {[dg |-> ShortHeader, data |-> Encode(ShortHeader)]}

Exporters == IF alphabet = "scope" THEN {"A", "B"} ELSE {"A"}

(***************************************************************************)
(* NetFlow v5 datagrams: a 24-byte header and 48-byte records, built field  *)
(* by field as an exporter lays them out (tests/test_decoders_netflow.py),  *)
(* followed by `tail` bytes of a record that was cut short.                 *)
(***************************************************************************)
V5Record(src, dst, pkts, octets, sport, dport, prot) ==
    [src |-> src, dst |-> dst, pkts |-> pkts, octets |-> octets,
     sport |-> sport, dport |-> dport, prot |-> prot]

V5Rec1 == V5Record(<<10, 0, 0, 1>>, <<10, 0, 0, 2>>, 7, 900, 1234, 80, 6)

V5Rec2 == V5Record(<<192, 168, 1, 5>>, <<8, 8, 8, 8>>, 1, 60, 53, 40000, 17)

\* srcaddr dstaddr nexthop input output dPkts dOctets First Last srcport
\* dstport pad1 tcp_flags prot tos src_as dst_as src_mask dst_mask pad2
EncodeV5Record(r) ==
    r.src \o r.dst \o <<172, 16, 0, 254>> \o BE16(3) \o BE16(4)
    \o BE32(r.pkts) \o BE32(r.octets) \o BE32(111) \o BE32(222)
    \o BE16(r.sport) \o BE16(r.dport) \o <<0, 27, r.prot, 28>>
    \o BE16(65001) \o BE16(65002) \o <<24, 16>> \o BE16(0)

RECURSIVE EncodeV5Records(_)
EncodeV5Records(rs) ==
    IF rs = <<>> THEN <<>> ELSE EncodeV5Record(Head(rs)) \o EncodeV5Records(Tail(rs))

\* version count sysUptime unix_secs unix_nsecs flow_sequence engine_type
\* engine_id sampling_interval
EncodeV5(dg) ==
    BE16(5) \o BE16(dg.count) \o BE32(1) \o BE32(dg.unix_secs) \o BE32(0)
    \o BE32(1) \o <<0, 0>> \o BE16(0)
    \o EncodeV5Records(dg.records)
    \o SubSeq(EncodeV5Record(V5Rec2), 1, dg.tail)

V5Datagram(count, unix_secs, records, tail) ==
    [ver |-> 5, sid |-> 0, sets |-> <<>>, count |-> count,
     unix_secs |-> unix_secs, records |-> records, tail |-> tail]

V5RecordSeqs ==
    {<<>>} \cup {<<a>> : a \in {V5Rec1, V5Rec2}}
    \cup {<<a, b>> : a \in {V5Rec1, V5Rec2}, b \in {V5Rec1, V5Rec2}}

OfferedV5 ==
    {[dg |-> dg, data |-> EncodeV5(dg)] :
        dg \in {V5Datagram(c, 1000, rs, t) :
                  c \in 0 .. 3, rs \in V5RecordSeqs, t \in {0, 47}}}

(***************************************************************************)
(* "widths": a template and, in the same datagram, two records of it; the   *)
(* template's fields have the widths exporters use or other widths.  A      *)
(* record is laid out field by field from the values of its flow.           *)
(***************************************************************************)
WRec1 ==
    [src_ipv4 |-> <<10, 0, 0, 1>>, dst_ipv4 |-> <<10, 0, 0, 2>>, src_port |-> 1234,
     dst_port |-> 443, proto |-> 6, bytes |-> 900]

WRec2 ==
    [src_ipv4 |-> <<192, 168, 1, 5>>, dst_ipv4 |-> <<8, 8, 8, 8>>, src_port |-> 53,
     dst_port |-> 40000, proto |-> 17, bytes |-> 60]

\* The name of a field type in a flow: both decoders map the same types.
WName(type) == NFV9_FIELD(type)

\* A field a decoder reads: its type is mapped and its width is 1, 2, 4 or 8.
WRead(field) == WName(field[1]) # "" /\ field[2] \in {1, 2, 4, 8}

\* The bytes of one field: the value, big-endian in the field's width, when
\* the field is one a decoder reads; bytes that are no value of the flow
\* otherwise.
EncodeField(rec, field) ==
    IF ~WRead(field) THEN [i \in 1..field[2] |-> 200 + i]
    ELSE IF WName(field[1]) \in {"src_ipv4", "dst_ipv4"} THEN rec[WName(field[1])]
    ELSE LET be == BE32(rec[WName(field[1])])
         IN IF field[2] = 8 THEN ZeroBytes(4) \o be ELSE SubSeq(be, 5 - field[2], 4)

RECURSIVE EncodeRecord(_, _)
EncodeRecord(rec, layout) ==
    IF layout = <<>> THEN <<>>
    ELSE EncodeField(rec, Head(layout)) \o EncodeRecord(rec, Tail(layout))

LayoutSix == <<<<8, 4>>, <<12, 4>>, <<7, 2>>, <<11, 2>>, <<4, 1>>, <<1, 4>>>>

\* LayoutSix with the i-th field w bytes wide
Widened(i, w) == [LayoutSix EXCEPT ![i] = <<@[1], w>>]

WidthLayouts ==
    {LayoutSix, Widened(1, 3), Widened(2, 6), Widened(3, 3), Widened(4, 5), Widened(5, 3),
     Widened(6, 16), Widened(6, 8), Widened(3, 4),
     [Widened(1, 3) EXCEPT ![2] = <<12, 3>>],
     [LayoutSix EXCEPT ![3] = <<7, 3>>, ![4] = <<11, 3>>, ![5] = <<4, 0>>, ![6] = <<1, 6>>],
     <<<<8, 4>>, <<61, 3>>, <<12, 4>>, <<7, 3>>, <<11, 2>>>>}

WidthsDatagram(ver, layout) ==
    Datagram(ver, 1, <<TemplateSet(256, layout),
                       DataSet(256, EncodeRecord(WRec1, layout) \o EncodeRecord(WRec2, layout))>>)

OfferedWidths(ver) ==
    {[dg |-> WidthsDatagram(ver, layout), data |-> Encode(WidthsDatagram(ver, layout))] :
        layout \in WidthLayouts}

OfferedV9 ==
    IF alphabet = "scope" THEN ScopeV9
    ELSE IF alphabet = "framing" THEN FramingV9
    ELSE IF alphabet = "v5" THEN OfferedV5
    ELSE IF alphabet = "widths" THEN OfferedWidths(9)
    ELSE WireV9

OfferedIPFIX ==
    IF alphabet = "scope" THEN ScopeIPFIX
    ELSE IF alphabet = "framing" THEN FramingIPFIX
    ELSE IF alphabet = "widths" THEN OfferedWidths(10)
    ELSE WireIPFIX

NoCall == [decoder |-> "none", exporter |-> "", dg |-> Datagram(0, 0, <<>>)]

(***************************************************************************)
(* History of template announcements, read off the datagram descriptions    *)
(***************************************************************************)
\* The family whose cache a call works on, "" when the datagram's version is
\* not the decoder's.
FamilyOf(c) ==
    IF c.decoder \in {"netflow", "jflow"} /\ c.dg.ver = 9 THEN "v9"
    ELSE IF c.decoder = "ipfix" /\ c.dg.ver = 10 THEN "ipfix"
    ELSE ""

Key(c, tid) == <<FamilyOf(c), c.exporter, c.dg.sid, tid>>

RECURSIVE AnnounceSets(_, _, _)
AnnounceSets(ann, c, sets) ==
    IF sets = <<>> THEN ann
    ELSE AnnounceSets(IF Head(sets).kind = "template" /\ FamilyOf(c) # ""
                      THEN DictSet(ann, Key(c, Head(sets).tid), Head(sets).layout)
                      ELSE ann,
                      c, Tail(sets))

\* The announcements up to and including the first n sets of the last call.
AnnouncedAt(n) == AnnounceSets(announced, call, SubSeq(call.dg.sets, 1, n))

\* A call that raised stopped at its data set (a datagram offered here carries
\* at most one): the template sets before it were processed, those after not.
RECURSIVE FirstData(_, _)
FirstData(sets, i) ==
    IF i > Len(sets) THEN Len(sets) + 1
    ELSE IF sets[i].kind = "data" THEN i ELSE FirstData(sets, i + 1)

AnnouncedAfter ==
    IF result.raised THEN AnnouncedAt(FirstData(call.dg.sets, 1) - 1)
    ELSE AnnouncedAt(Len(call.dg.sets))

(***************************************************************************)
(* Decoder calls                                                            *)
(***************************************************************************)
NoStoreOp == [name |-> "none"]

\* The decoders alone: no store is attached.
StoreUnused ==
    /\ _flows = <<>>
    /\ maxlen = 0
    /\ appended = <<>>
    /\ storeOp = NoStoreOp

\* The collectors of src/: jflow_udp and json_udp.
Caps == {"jflow_udp", "json_udp"}

NoPass == [pc |-> "idle"]

NoDatagram == [cap |-> "none"]

\* Each capability as its __init__ leaves it; no task, no socket, no call.
CollectorsConstructed ==
    /\ _running = [c \in Caps |-> FALSE]
    /\ _stop = [c \in Caps |-> FALSE]
    /\ _task = [c \in Caps |-> "none"]
    /\ sock = [c \in Caps |-> "none"]
    /\ _host = [c \in Caps |-> "0.0.0.0"]
    /\ _port = [c \in Caps |-> IF c = "jflow_udp" THEN 2055 ELSE 6343]
    /\ _ingested = [c \in Caps |-> 0]
    /\ _dropped = [c \in Caps |-> 0]
    /\ stopCall = [c \in Caps |-> "idle"]
    /\ ret = [c \in Caps |-> ""]
    /\ pass = NoPass
    /\ handled = NoDatagram
    /\ nrecv = 0
    /\ nstarts = 0
    /\ orphans = [c \in Caps |-> 0]
    /\ bound = [c \in Caps |-> 0]

NoReport == [name |-> "none"]

NoAnalysis == [name |-> "none"]

NoAsk == [name |-> "none"]

\* BaselineAnomalyCapability.__init__, with its BaselineModel and ShiftModel
AnalysisConstructed ==
    /\ config = Defaults
    /\ _points = EmptyDict
    /\ _prev = EmptyDict
    /\ _last_alert_ts = EmptyDict
    /\ report = NoReport
    /\ fed = EmptyDict
    /\ lastEvent = EmptyDict
    /\ npasses = 0
    /\ nfeeds = 0
    /\ qualified = EmptyDict
    /\ monitor = LatencyMonitor
    /\ cooldown_seconds = 120
    /\ last_alert_ts = EmptyDict
    /\ analysis = NoAnalysis
    /\ asked = NoAsk
    /\ granted = EmptyDict
    /\ _caps = [c \in Caps |-> LoadedCapability(c, Capability(c, 1))]
    /\ registryOp = NoAsk

DecodersLoaded ==
    /\ StoreUnused
    /\ CollectorsConstructed
    /\ AnalysisConstructed
    /\ _V9_CACHE = EmptyDict
    /\ _IPFIX_CACHE = EmptyDict
    /\ family \in {"v9", "ipfix"}
    /\ call = NoCall
    /\ result = [flows |-> <<>>, raised |-> FALSE]
    /\ announced = EmptyDict
    /\ ncalls = 0
    /\ scan = NoScan

Called(decoder, exporter, dg, r) ==
    /\ call' = [decoder |-> decoder, exporter |-> exporter, dg |-> dg]
    /\ result' = [flows |-> r.flows, raised |-> r.raised]
    /\ ncalls' = ncalls + 1
    /\ UNCHANGED <<family, alphabet, announced, scan, now, storeVars, collectVars, analysisVars>>

CallNetflow ==
    /\ call = NoCall
    /\ ncalls < MaxCalls
    /\ family = "v9"
    /\ \E exporter \in Exporters, o \in OfferedV9 :
         LET r == decode_netflow(o.data, exporter, _V9_CACHE, now)
         IN /\ _V9_CACHE' = r.cache
            /\ UNCHANGED _IPFIX_CACHE
            /\ Called("netflow", exporter, o.dg, r)

CallJflow ==
    /\ call = NoCall
    /\ ncalls < MaxCalls
    /\ family = "v9"
    /\ \E exporter \in Exporters, o \in OfferedV9 :
         LET r == decode_jflow(o.data, exporter, _V9_CACHE, now)
         IN /\ _V9_CACHE' = r.cache
            /\ UNCHANGED _IPFIX_CACHE
            /\ Called("jflow", exporter, o.dg, r)

CallIpfix ==
    /\ call = NoCall
    /\ ncalls < MaxCalls
    /\ family = "ipfix"
    /\ \E exporter \in Exporters, o \in OfferedIPFIX :
         LET r == decode_ipfix(o.data, exporter, _IPFIX_CACHE, now)
         IN /\ _IPFIX_CACHE' = r.cache
            /\ UNCHANGED _V9_CACHE
            /\ Called("ipfix", exporter, o.dg, r)

\* The caller takes the returned list (or the exception); the call is over.
Consume ==
    /\ call # NoCall
    /\ call' = NoCall
    /\ result' = [flows |-> <<>>, raised |-> FALSE]
    /\ announced' = AnnouncedAfter
    /\ UNCHANGED <<_V9_CACHE, _IPFIX_CACHE, family, alphabet, ncalls, scan, now, storeVars,
                   collectVars,
                   analysisVars>>

DecodeNext == CallNetflow \/ CallJflow \/ CallIpfix \/ Consume

\* The decoders on the "scope" inputs, and on the "wire" inputs.
ScopeInit ==
    /\ DecodersLoaded
    /\ alphabet = "scope"
    /\ now = 0

WireInit ==
    /\ DecodersLoaded
    /\ alphabet = "wire"
    /\ now = 0

SpecDecode == ScopeInit /\ [][DecodeNext]_vars

SpecWire == WireInit /\ [][DecodeNext]_vars

(***************************************************************************)
(* What the datagram descriptions say a decoder should find                 *)
(***************************************************************************)
RECURSIVE RecordLen(_)
RecordLen(layout) ==
    IF layout = <<>> THEN 0 ELSE Head(layout)[2] + RecordLen(Tail(layout))

HasType(layout, type) == \E i \in 1..Len(layout) : layout[i][1] = type

\* Both IPv4 address fields (types 8 and 12) are declared, each 4 bytes wide.
AddressesWidth4(layout) ==
    /\ HasType(layout, 8)
    /\ HasType(layout, 12)
    /\ \A i \in 1..Len(layout) : layout[i][1] \in {8, 12} => layout[i][2] = 4

RECURSIVE OffsetOf(_, _)
\* Where the first field of the type starts in a record of the layout.
OffsetOf(layout, type) ==
    IF Head(layout)[1] = type THEN 0 ELSE Head(layout)[2] + OffsetOf(Tail(layout), type)

\* The dotted address the first record of body carries for the type.
AddrAt(layout, body, type) ==
    <<"ipv4", Slice(body, OffsetOf(layout, type), OffsetOf(layout, type) + 4)>>

Complete(layout, body) == RecordLen(layout) > 0 /\ RecordLen(layout) <= Len(body)

DataSets(c) == {i \in 1..Len(c.dg.sets) : c.dg.sets[i].kind = "data"}

\* The first record returned is the first record of body read by layout.
FirstReadBy(layout, body) ==
    /\ ~result.raised
    /\ result.flows # <<>>
    /\ result.flows[1].src = AddrAt(layout, body, 8)
    /\ result.flows[1].dst = AddrAt(layout, body, 12)

\* The layout the family's cache holds for the call's exporter and source id.
CachedLayout(c, tid) ==
    IF FamilyOf(c) = "v9"
    THEN LET t == NetFlowV9TemplateCache_get(_V9_CACHE, c.exporter, c.dg.sid, tid)
         IN [i \in 1..Len(t.fields) |-> <<t.fields[i].field_type, t.fields[i].field_len>>]
    ELSE LET t == IPFIXTemplateCache_get(_IPFIX_CACHE, c.exporter, c.dg.sid, tid)
         IN [i \in 1..Len(t.fields) |-> <<t.fields[i].ie_id, t.fields[i].length>>]

\* The decoder of the last call, applied to one more datagram now.
DecodeAgain(c, sets) ==
    LET data == Encode(Datagram(c.dg.ver, c.dg.sid, sets))
    IN IF FamilyOf(c) = "v9" THEN decode_netflow(data, c.exporter, _V9_CACHE, now)
       ELSE decode_ipfix(data, c.exporter, _IPFIX_CACHE, now)

(***************************************************************************)
(* C1: every decoder call returns a list of FlowRecords and never raises,   *)
(* also for a data record whose cached template declares an IPv4 address    *)
(* field 1, 2 or 8 bytes wide.                                              *)
(* Stated as is; NetFlow v9 (and jFlow) raise on an 8-byte address whose    *)
(* value does not fit 32 bits.                                              *)
(***************************************************************************)
C1_DecodersNeverRaise == ~result.raised

(***************************************************************************)
(* C2 as stated: once a template set defining id i was processed for (E, D) *)
(* every later datagram of (E, D) with a data set i holding a complete      *)
(* record is decoded into records; and a data set whose template was not    *)
(* yet received yields no record.                                           *)
(***************************************************************************)
C2_AnyTemplateYieldsRecords ==
    \A i \in DataSets(call) :
        LET s == call.dg.sets[i]
            k == Key(call, s.tid)
            ann == AnnouncedAt(i - 1)
        IN /\ (FamilyOf(call) # "" /\ k \in DOMAIN announced /\ Complete(ann[k], s.body))
                => (~result.raised /\ result.flows # <<>>)
           /\ (k \notin DOMAIN ann) => result.flows = <<>>

(***************************************************************************)
(* C2 amended: the same, for a template whose most recent definition        *)
(* declares both IPv4 address fields 4 bytes wide (a record without both    *)
(* addresses is dropped).  Templates are never evicted: the data set        *)
(* decodes however many datagrams, exporters and templates came between.    *)
(***************************************************************************)
C2_TemplateRetained ==
    \A i \in DataSets(call) :
        LET s == call.dg.sets[i]
            k == Key(call, s.tid)
            ann == AnnouncedAt(i - 1)
        IN /\ (FamilyOf(call) # "" /\ k \in DOMAIN announced
                /\ AddressesWidth4(ann[k]) /\ Complete(ann[k], s.body))
                => (~result.raised /\ result.flows # <<>>)
           /\ (k \notin DOMAIN ann) => result.flows = <<>>

\* A data set decoded in the third call, by a template announced before it,
\* with a template of another key announced as well.
C2_Witness ==
    /\ ncalls >= 3
    /\ Cardinality(DOMAIN announced) >= 2
    /\ \E i \in DataSets(call) :
         LET s == call.dg.sets[i]
             k == Key(call, s.tid)
         IN /\ k \in DOMAIN announced
            /\ AddressesWidth4(announced[k])
            /\ Complete(announced[k], s.body)
            /\ result.flows # <<>>

(***************************************************************************)
(* C3: a template cached under (E, D, i) is never used for a data set i     *)
(* that arrives with another exporter or another source id / observation    *)
(* domain: such a data set yields no record unless a template i was         *)
(* received for its own (E', D'), and then it is read by that one.          *)
(***************************************************************************)
OtherScopes(k, ann) ==
    {o \in DOMAIN ann : o[1] = k[1] /\ o[4] = k[4] /\ (o[2] # k[2] \/ o[3] # k[3])}

C3_TemplateScopedToExporterAndDomain ==
    \A i \in DataSets(call) :
        LET s == call.dg.sets[i]
            k == Key(call, s.tid)
            ann == AnnouncedAt(i - 1)
        IN (FamilyOf(call) # "" /\ OtherScopes(k, ann) # {}) =>
             /\ (k \notin DOMAIN ann) => (~result.raised /\ result.flows = <<>>)
             /\ (k \in DOMAIN ann /\ AddressesWidth4(ann[k]) /\ Complete(ann[k], s.body))
                  => FirstReadBy(ann[k], s.body)

\* A data set that found no template although another exporter, or another
\* source id, announced a usable one with its id.
C3_Witness ==
    \E i \in DataSets(call) :
        LET s == call.dg.sets[i]
            k == Key(call, s.tid)
        IN /\ k \notin DOMAIN AnnouncedAt(i - 1)
           /\ \E o \in OtherScopes(k, announced) :
                /\ o[2] # k[2]
                /\ AddressesWidth4(announced[o])
                /\ Complete(announced[o], s.body)
           /\ \E o \in OtherScopes(k, announced) : o[3] # k[3]
           /\ result.flows = <<>>

(***************************************************************************)
(* C5: the sets of one datagram are processed in wire order.  A data set    *)
(* after its template set in the same datagram is read by that template;    *)
(* a data set before its template set, with no template cached for the key, *)
(* yields no record, the template is cached all the same, and the same data *)
(* set in a later datagram decodes.                                         *)
(***************************************************************************)
C5_SetsInWireOrder ==
    (FamilyOf(call) # "" /\ Len(call.dg.sets) = 2) =>
        LET s1 == call.dg.sets[1]
            s2 == call.dg.sets[2]
        IN /\ (s1.kind = "template" /\ s2.kind = "data" /\ s1.tid = s2.tid) =>
                IF AddressesWidth4(s1.layout) /\ Complete(s1.layout, s2.body)
                THEN FirstReadBy(s1.layout, s2.body)
                ELSE ~result.raised /\ result.flows = <<>>
           /\ (s1.kind = "data" /\ s2.kind = "template" /\ s1.tid = s2.tid
                /\ Key(call, s1.tid) \notin DOMAIN announced) =>
                /\ ~result.raised
                /\ result.flows = <<>>
                /\ CachedLayout(call, s2.tid) = s2.layout
                /\ (AddressesWidth4(s2.layout) /\ Complete(s2.layout, s1.body)) =>
                      DecodeAgain(call, <<s1>>).flows # <<>>

\* A datagram whose data set came first and was dropped, its template cached.
C5_Witness ==
    /\ FamilyOf(call) # ""
    /\ Len(call.dg.sets) = 2
    /\ call.dg.sets[1].kind = "data"
    /\ call.dg.sets[2].kind = "template"
    /\ AddressesWidth4(call.dg.sets[2].layout)
    /\ Complete(call.dg.sets[2].layout, call.dg.sets[1].body)
    /\ Key(call, call.dg.sets[1].tid) \notin DOMAIN announced
    /\ result.flows = <<>>
    /\ CachedLayout(call, call.dg.sets[2].tid) = call.dg.sets[2].layout

(***************************************************************************)
(* FlowStore (core/store.py)                                                *)
(***************************************************************************)
MaxLen == 3

MaxBatch == 2

MaxAppended == 4

MaxNow == 2

\* deque.append on a deque that is full drops the newest record instead.
deque_append_DropNewest(q, f, cap) ==
    IF Len(q) >= cap THEN q ELSE Append(q, f)

\* collections.deque(maxlen=cap).append(f): a full deque discards its
\* leftmost item; a deque of maxlen 0 stays empty.
deque_append(q, f, cap) ==
    IF cap = 0 THEN q
    ELSE IF Len(q) = cap THEN Append(Tail(q), f)
    ELSE Append(q, f)

RECURSIVE add_many_Reversed(_, _, _)
\* add_many() appending the records of a batch last to first.
add_many_Reversed(q, flows, cap) ==
    IF flows = <<>> THEN q
    ELSE deque_append(add_many_Reversed(q, Tail(flows), cap), Head(flows), cap)

RECURSIVE add_many(_, _, _)
\* for f in flows: self._flows.append(f)
add_many(q, flows, cap) ==
    IF flows = <<>> THEN q
    ELSE add_many(deque_append(q, Head(flows), cap), Tail(flows), cap)

\* recent() with a cutoff that excludes the record exactly at the cutoff.
recent_Strict(q, seconds, time) ==
    LET cutoff == time - seconds
        newer(f) == f.ts > cutoff
    IN SelectSeq(q, newer)

\* cutoff = time.time() - seconds; [f for f in self._flows if f.ts >= cutoff]
recent(q, seconds, time) ==
    LET cutoff == time - seconds
        newer(f) == f.ts >= cutoff
    IN SelectSeq(q, newer)

\* Records offered to the store: the n-th record ever appended carries n as
\* its latency, so that each one can be told from the others.
StoreRecord(n, ts) == FlowRecord(ts, "a", "b", 0, 0, "TCP", n, 0, 0)

\* The timestamps records carry: before, at and after the cutoffs asked for.
Stamps == {0, 1, 2}

Batches(first) ==
    UNION {{[i \in 1..k |-> StoreRecord(first + i, tss[i])] : tss \in [1..k -> Stamps]}
           : k \in 0..MaxBatch}

StoreInit ==
    /\ _flows = <<>>
    /\ maxlen \in 0..MaxLen
    /\ appended = <<>>
    /\ storeOp = NoStoreOp
    /\ now = 0
    /\ CollectorsConstructed
    /\ AnalysisConstructed
    /\ _V9_CACHE = EmptyDict
    /\ _IPFIX_CACHE = EmptyDict
    /\ family = "none"
    /\ alphabet = "none"
    /\ call = NoCall
    /\ result = [flows |-> <<>>, raised |-> FALSE]
    /\ announced = EmptyDict
    /\ ncalls = 0
    /\ scan = NoScan

StoreAddMany ==
    \E flows \in Batches(Len(appended)) :
        /\ Len(appended) + Len(flows) <= MaxAppended
        /\ _flows' = add_many(_flows, flows, maxlen)
        /\ appended' = appended \o flows
        /\ storeOp' = [name |-> "add_many", n |-> Len(flows)]
        /\ UNCHANGED <<maxlen, now, decodeVars, collectVars, analysisVars>>

StoreRecent ==
    \E seconds \in 0..MaxNow :
        /\ storeOp' = [name |-> "recent", seconds |-> seconds, at |-> now,
                       returned |-> recent(_flows, seconds, now)]
        /\ UNCHANGED <<_flows, maxlen, appended, now, decodeVars, collectVars, analysisVars>>

Tick ==
    /\ now < MaxNow
    /\ now' = now + 1
    /\ UNCHANGED <<storeVars, decodeVars, collectVars, analysisVars>>

StoreNext == StoreAddMany \/ StoreRecent \/ Tick

SpecStore == StoreInit /\ [][StoreNext]_vars

LastN(s, n) == SubSeq(s, Len(s) - n + 1, Len(s))

(***************************************************************************)
(* C6: after any sequence of add_many calls the store of capacity C holds   *)
(* exactly the last min(C, total appended) records in arrival order, never  *)
(* more than C, the oldest discarded first, also when one add_many call     *)
(* carries more than C records.                                             *)
(***************************************************************************)
C6_HoldsLastRecords ==
    /\ Len(_flows) <= maxlen
    /\ _flows = LastN(appended, Min(maxlen, Len(appended)))

\* One add_many call carried more records than the store holds, after
\* earlier records had been stored.
C6_Witness ==
    /\ maxlen >= 1
    /\ storeOp.name = "add_many"
    /\ storeOp.n > maxlen
    /\ Len(appended) > storeOp.n
    /\ Len(_flows) = maxlen

(***************************************************************************)
(* C7: recent(w) returns exactly the records held whose ts >= now - w, in   *)
(* arrival order: none older, none missing, at most capacity many, and no   *)
(* record that was evicted.                                                 *)
(***************************************************************************)
C7_RecentIsExactWindow ==
    storeOp.name = "recent" =>
        LET r == storeOp.returned
            cutoff == storeOp.at - storeOp.seconds
            held == {_flows[j] : j \in 1..Len(_flows)}
            evicted == {appended[j] : j \in 1..(Len(appended) - Len(_flows))}
        IN /\ Len(r) <= maxlen
           /\ \A i \in 1..Len(r) : r[i] \in held /\ r[i].ts >= cutoff /\ r[i] \notin evicted
           /\ \A f \in held : f.ts >= cutoff => \E i \in 1..Len(r) : r[i] = f
           /\ \A i, j \in 1..Len(r) : i < j => r[i].latency_ms < r[j].latency_ms

\* recent() left out an older record that is held, returned two others, one
\* of them exactly at the cutoff, after a record had been evicted.
C7_Witness ==
    /\ storeOp.name = "recent"
    /\ Len(storeOp.returned) >= 2
    /\ Len(storeOp.returned) < Len(_flows)
    /\ \E i \in 1..Len(storeOp.returned) :
         storeOp.returned[i].ts = storeOp.at - storeOp.seconds
    /\ Len(appended) > Len(_flows)

(***************************************************************************)
(* json_udp: JsonUdpCapability._decode                                      *)
(* A payload is given by what json.loads makes of it: "invalid" when it     *)
(* raises, else a dict, a list or a scalar.  A dict maps keys to values     *)
(* <<"int", n>> or <<"str", text>>.                                         *)
(***************************************************************************)
\* The texts among the inputs that float() and int() accept.
NumericText == ("7" :> 7)

\* float(v), int(v): the number, or ok = FALSE where they raise.
ToNumber(v) ==
    IF v[1] = "int" THEN [ok |-> TRUE, val |-> v[2]]
    ELSE IF v[2] \in DOMAIN NumericText THEN [ok |-> TRUE, val |-> NumericText[v[2]]]
    ELSE [ok |-> FALSE, val |-> 0]

RECURSIVE IntNum(_)
IntNum(n) == IF n = 0 THEN <<>> ELSE IntNum(n \div 256) \o <<n % 256>>

\* str(v)
ToStr(v) == IF v[1] = "str" THEN v[2] ELSE StrOfInt(IntNum(v[2]))

\* to_flow(d): the FlowRecord, or None (ok = FALSE) on any exception.
to_flow(d, time) ==
    LET get(k, default) == IF k \in DOMAIN d THEN d[k] ELSE default
        ts == ToNumber(get("ts", <<"int", time>>))
        src_port == ToNumber(get("src_port", <<"int", 0>>))
        dst_port == ToNumber(get("dst_port", <<"int", 0>>))
        bytes == ToNumber(get("bytes", <<"int", 0>>))
        packets == ToNumber(get("packets", <<"int", 0>>))
    IN IF {"src", "dst", "latency_ms"} \subseteq DOMAIN d
          /\ ts.ok /\ src_port.ok /\ dst_port.ok /\ bytes.ok /\ packets.ok
          /\ ToNumber(d["latency_ms"]).ok
       THEN [ok |-> TRUE,
             f |-> FlowRecord(ts.val, ToStr(d["src"]), ToStr(d["dst"]), src_port.val,
                              dst_port.val, ToStr(get("proto", <<"str", "TCP">>)),
                              ToNumber(d["latency_ms"]).val, bytes.val, packets.val)]
       ELSE [ok |-> FALSE, f |-> <<>>]

RECURSIVE JsonItems(_, _)
\* for item in obj: if isinstance(item, dict): f = to_flow(item); if f: append
JsonItems(items, time) ==
    IF items = <<>> THEN <<>>
    ELSE LET item == Head(items)
             rest == JsonItems(Tail(items), time)
         IN IF item.kind = "dict" /\ to_flow(item.d, time).ok
            THEN <<to_flow(item.d, time).f>> \o rest
            ELSE rest

_decode(payload, time) ==
    IF payload.kind = "invalid" THEN <<>>
    ELSE IF payload.kind = "list" THEN JsonItems(payload.items, time)
    ELSE IF payload.kind = "dict" THEN JsonItems(<<payload>>, time)
    ELSE <<>>

JDict(d) == [kind |-> "dict", d |-> d]

JGood ==
    JDict([k \in {"ts", "src", "dst", "latency_ms"} |->
            CASE k = "ts" -> <<"int", 990>>
              [] k = "src" -> <<"str", "a">>
              [] k = "dst" -> <<"str", "b">>
              [] k = "latency_ms" -> <<"str", "7">>])

JNow ==
    JDict([k \in {"src", "dst", "latency_ms", "src_port"} |->
            CASE k = "src" -> <<"int", 5>>
              [] k = "dst" -> <<"str", "b">>
              [] k = "latency_ms" -> <<"int", 9>>
              [] k = "src_port" -> <<"int", 443>>])

JNoLatency == JDict([k \in {"src", "dst"} |-> <<"str", "a">>])

JBadNumber ==
    JDict([k \in {"src", "dst", "latency_ms"} |->
            IF k = "latency_ms" THEN <<"str", "x">> ELSE <<"str", "a">>])

JsonPayloads ==
    {[kind |-> "invalid"], JNoLatency, JGood,
     [kind |-> "list", items |-> <<JGood, JBadNumber, [kind |-> "scalar"], JNow>>]}

(***************************************************************************)
(* The collectors (jflow_udp/capability.py, json_udp/capability.py) and the *)
(* analysis tools (core/server.py) on one asyncio event loop.  A step is    *)
(* what one coroutine does between two points where it gives up the loop;   *)
(* an analysis tool is a plain function and holds the loop from its first   *)
(* line to its last.  One stop() per collector is in progress at a time.    *)
(***************************************************************************)
MaxRecv == 3

MaxStarts == 2

Senders == {"A", "B"}

Hosts == {"0.0.0.0"}

\* The ports start() is asked for: 0 alone where datagrams are offered, 0 and
\* the jflow default where none are.
Ports == IF alphabet = "quiet" THEN {0, 2055} ELSE {0}

\* The port the kernel gives a socket bound to port 0: a free one of its
\* ephemeral range, never one another socket holds.  Nothing in the program
\* reads which, so one port a collector stands for the kernel's choice.
EphemeralPort(c) == IF c = "jflow_udp" THEN 49152 ELSE 49153

\* The window each tool asks the store for: analyze_latency(seconds=5),
\* monitor.window_seconds, BaselineAnomalyCapability._window_seconds.
WindowOf(tool) ==
    CASE tool = "analyze_latency" -> 5
      [] tool = "monitor_once" -> 300
      [] tool = "analyze_once" -> 60

\* What reaches the jflow socket: a template, its data, a template with an
\* 8-byte source address followed by data, and two bytes of anything.
JflowDatagrams ==
    Offered(9, {1}, {<<TemplateSet(256, LayoutPair)>>,
                     <<DataSet(256, BodyFull)>>,
                     <<TemplateSet(256, LayoutSrcWidth(8)), DataSet(256, BodyFull)>>})
    \cup {[dg |-> Datagram(0, 0, <<>>), data |-> <<0, 0>>]}

QuietDatagrams == Offered(9, {1}, {<<TemplateSet(256, LayoutPair)>>})

DatagramsFor(c) ==
    IF c = "jflow_udp"
    THEN IF alphabet = "collect" THEN JflowDatagrams ELSE QuietDatagrams
    ELSE IF alphabet = "collect" THEN JsonPayloads ELSE {JGood}

\* As if the analysis tools ran on a thread of their own.
LoopFree_Threaded == TRUE

\* The loop runs a collector's coroutine only while no plain function is
\* running on it.
LoopFree == pass.pc = "idle"

ServerConstructed ==
    /\ CollectorsConstructed
    /\ AnalysisConstructed
    /\ _flows = <<>>
    /\ maxlen = MaxLen
    /\ appended = <<>>
    /\ storeOp = NoStoreOp
    /\ now = 1000
    /\ _V9_CACHE = EmptyDict
    /\ _IPFIX_CACHE = EmptyDict
    /\ family = "v9"
    /\ call = NoCall
    /\ result = [flows |-> <<>>, raised |-> FALSE]
    /\ announced = EmptyDict
    /\ ncalls = 0
    /\ scan = NoScan

\* A task that has not run to its end: asyncio.create_task() made it and
\* _run() has neither returned nor raised.
Live(task) == task \in {"created", "receiving", "sleeping"}

\* start() without its first two lines: it makes a task whether or not the
\* collector is running.
Start_Unguarded(c) ==
    /\ LoopFree
    /\ nstarts < MaxStarts
    /\ \E host \in Hosts, port \in Ports :
         /\ _host' = [_host EXCEPT ![c] = host]
         /\ _port' = [_port EXCEPT ![c] = port]
    /\ _stop' = [_stop EXCEPT ![c] = FALSE]
    /\ orphans' = [orphans EXCEPT ![c] = @ + (IF Live(_task[c]) THEN 1 ELSE 0)]
    /\ _task' = [_task EXCEPT ![c] = "created"]
    /\ _running' = [_running EXCEPT ![c] = TRUE]
    /\ nstarts' = nstarts + 1
    /\ ret' = [ret EXCEPT ![c] = "started"]
    /\ UNCHANGED <<sock, _ingested, _dropped, stopCall, pass, handled, nrecv, bound>>
    /\ UNCHANGED <<decodeVars, now, storeVars, analysisVars>>

\* start(host, port)
Start(c) ==
    /\ LoopFree
    /\ \E host \in Hosts, port \in Ports :
         IF _running[c]
         THEN /\ ret' = [ret EXCEPT ![c] = "already running"]
              /\ UNCHANGED <<_running, _stop, _task, _host, _port, nstarts, orphans>>
         ELSE /\ nstarts < MaxStarts
              /\ _host' = [_host EXCEPT ![c] = host]
              /\ _port' = [_port EXCEPT ![c] = port]
              /\ _stop' = [_stop EXCEPT ![c] = FALSE]
              /\ orphans' = [orphans EXCEPT ![c] = @ + (IF Live(_task[c]) THEN 1 ELSE 0)]
              /\ _task' = [_task EXCEPT ![c] = "created"]
              /\ _running' = [_running EXCEPT ![c] = TRUE]
              /\ nstarts' = nstarts + 1
              /\ ret' = [ret EXCEPT ![c] = "started"]
    /\ UNCHANGED <<sock, _ingested, _dropped, stopCall, pass, handled, nrecv, bound>>
    /\ UNCHANGED <<decodeVars, now, storeVars, analysisVars>>

\* stop(), up to "await self._task": awaiting a task that is done gives its
\* result, or raises its exception, without giving up the loop.
Stop(c) ==
    /\ LoopFree
    /\ stopCall[c] = "idle"
    /\ IF ~_running[c]
       THEN /\ ret' = [ret EXCEPT ![c] = "not running"]
            /\ UNCHANGED <<_running, _stop, stopCall>>
       ELSE /\ _stop' = [_stop EXCEPT ![c] = TRUE]
            /\ IF _task[c] = "done"
               THEN /\ _running' = [_running EXCEPT ![c] = FALSE]
                    /\ ret' = [ret EXCEPT ![c] = "stopped"]
                    /\ UNCHANGED stopCall
               ELSE IF _task[c] = "failed"
               THEN /\ ret' = [ret EXCEPT ![c] = "raised"]
                    /\ UNCHANGED <<_running, stopCall>>
               ELSE /\ stopCall' = [stopCall EXCEPT ![c] = "waiting"]
                    /\ ret' = [ret EXCEPT ![c] = ""]
                    /\ UNCHANGED _running
    /\ UNCHANGED <<_task, sock, _host, _port, _ingested, _dropped, pass, handled, nrecv, nstarts, orphans, bound>>
    /\ UNCHANGED <<decodeVars, now, storeVars, analysisVars>>

\* stop(), from the end of the task it awaits.
StopResume(c) ==
    /\ LoopFree
    /\ stopCall[c] = "waiting"
    /\ _task[c] \in {"done", "failed"}
    /\ stopCall' = [stopCall EXCEPT ![c] = "idle"]
    /\ IF _task[c] = "done"
       THEN /\ _running' = [_running EXCEPT ![c] = FALSE]
            /\ ret' = [ret EXCEPT ![c] = "stopped"]
       ELSE /\ ret' = [ret EXCEPT ![c] = "raised"]
            /\ UNCHANGED _running
    /\ UNCHANGED <<_stop, _task, sock, _host, _port, _ingested, _dropped, pass, handled, nrecv, nstarts, orphans, bound>>
    /\ UNCHANGED <<decodeVars, now, storeVars, analysisVars>>

\* while not self._stop.is_set(): await loop.sock_recvfrom(...)
\* finally: sock.close()
LoopHead(c, port) ==
    IF _stop[c]
    THEN /\ _task' = [_task EXCEPT ![c] = "done"]
         /\ sock' = [sock EXCEPT ![c] = "closed"]
         /\ bound' = [bound EXCEPT ![c] = 0]
    ELSE /\ _task' = [_task EXCEPT ![c] = "receiving"]
         /\ sock' = [sock EXCEPT ![c] = "open"]
         /\ bound' = [bound EXCEPT ![c] = port]

\* The port sock.bind((self._host, self._port)) gives the socket: the port
\* asked for, or, asked for port 0, a free port of the ephemeral range.
\* A port another collector's open socket holds is taken: bind() raises.
PortTaken(c, port) ==
    \E d \in Caps \ {c} : sock[d] = "open" /\ bound[d] = port

BindPort(c) == IF _port[c] = 0 THEN EphemeralPort(c) ELSE _port[c]

\* _run(), from its first line to the first receive.
TaskStart(c) ==
    /\ LoopFree
    /\ _task[c] = "created"
    /\ IF PortTaken(c, BindPort(c))
       THEN /\ _task' = [_task EXCEPT ![c] = "failed"]
            /\ UNCHANGED <<sock, bound>>
       ELSE LoopHead(c, BindPort(c))
    /\ UNCHANGED <<_running, _stop, _host, _port, _ingested, _dropped, stopCall, ret,
                   pass, handled, nrecv, nstarts, orphans>>
    /\ UNCHANGED <<decodeVars, now, storeVars, analysisVars>>

\* The templates a sender has announced, whatever the collector made of them.
AnnouncedBy(sender, dg, raised) ==
    LET c == [decoder |-> "jflow", exporter |-> sender, dg |-> dg]
    IN AnnounceSets(announced, c,
                    SubSeq(dg.sets, 1, IF raised THEN FirstData(dg.sets, 1) - 1
                                       ELSE Len(dg.sets)))

\* if flows: store.add_many(flows); ingested += len(flows)  else: dropped += 1
Ingest(c, flows) ==
    IF flows # <<>>
    THEN /\ _flows' = add_many(_flows, flows, maxlen)
         /\ _ingested' = [_ingested EXCEPT ![c] = @ + Len(flows)]
         /\ UNCHANGED _dropped
    ELSE /\ _dropped' = [_dropped EXCEPT ![c] = @ + 1]
         /\ UNCHANGED <<_flows, _ingested>>

\* jflow_udp _run(): a datagram arrives; flows = decode_jflow(data), which
\* takes its exporter by default, "unknown".  An exception of the decoder
\* leaves through the finally clause and ends the task.
ReceiveJflow ==
    /\ LoopFree
    /\ _task["jflow_udp"] = "receiving"
    /\ nrecv < MaxRecv
    /\ \E sender \in Senders, o \in DatagramsFor("jflow_udp") :
         LET r == decode_jflow(o.data, "unknown", _V9_CACHE, now)
         IN /\ _V9_CACHE' = r.cache
            /\ handled' = [cap |-> "jflow_udp", sender |-> sender, dg |-> o.dg,
                           flows |-> r.flows, raised |-> r.raised]
            /\ announced' = AnnouncedBy(sender, o.dg, r.raised)
            /\ IF r.raised
               THEN /\ _task' = [_task EXCEPT !["jflow_udp"] = "failed"]
                    /\ sock' = [sock EXCEPT !["jflow_udp"] = "closed"]
                    /\ bound' = [bound EXCEPT !["jflow_udp"] = 0]
                    /\ UNCHANGED <<_flows, _ingested, _dropped>>
               ELSE /\ Ingest("jflow_udp", r.flows)
                    /\ LoopHead("jflow_udp", bound["jflow_udp"])
    /\ nrecv' = nrecv + 1
    /\ UNCHANGED <<_running, _stop, _host, _port, stopCall, ret, pass, nstarts, orphans>>
    /\ UNCHANGED <<_IPFIX_CACHE, family, alphabet, call, result, ncalls, scan, now, maxlen,
                   appended, storeOp, analysisVars>>

\* json_udp _run(): a datagram arrives, its sender is not looked at;
\* flows = self._decode(data)
ReceiveJson ==
    /\ LoopFree
    /\ _task["json_udp"] = "receiving"
    /\ nrecv < MaxRecv
    /\ \E payload \in DatagramsFor("json_udp") :
         LET flows == _decode(payload, now)
         IN /\ handled' = [cap |-> "json_udp", sender |-> "", dg |-> payload,
                           flows |-> flows, raised |-> FALSE]
            /\ Ingest("json_udp", flows)
            /\ LoopHead("json_udp", bound["json_udp"])
    /\ nrecv' = nrecv + 1
    /\ UNCHANGED <<_running, _stop, _host, _port, stopCall, ret, pass, nstarts, orphans>>
    /\ UNCHANGED <<decodeVars, now, maxlen, appended, storeOp, analysisVars>>

\* sock_recvfrom raises: except Exception: await asyncio.sleep(0.05)
ReceiveError(c) ==
    /\ LoopFree
    /\ _task[c] = "receiving"
    /\ _task' = [_task EXCEPT ![c] = "sleeping"]
    /\ UNCHANGED <<_running, _stop, sock, _host, _port, _ingested, _dropped, stopCall, ret,
                   pass, handled, nrecv, nstarts, orphans, bound>>
    /\ UNCHANGED <<decodeVars, now, storeVars, analysisVars>>

\* the sleep is over: continue
WakeUp(c) ==
    /\ LoopFree
    /\ _task[c] = "sleeping"
    /\ LoopHead(c, bound[c])
    /\ UNCHANGED <<_running, _stop, _host, _port, _ingested, _dropped, stopCall, ret,
                   pass, handled, nrecv, nstarts, orphans>>
    /\ UNCHANGED <<decodeVars, now, storeVars, analysisVars>>

\* analyze_latency, monitor_once, analyze_once: flows = store.recent(seconds=...)
AnalyzeBegin ==
    /\ pass.pc = "idle"
    /\ \E tool \in {"analyze_latency", "monitor_once", "analyze_once"} :
         pass' = [pc |-> "analysing", tool |-> tool, held |-> _flows,
                  flows |-> recent(_flows, WindowOf(tool), now)]
    /\ UNCHANGED <<_running, _stop, _task, sock, _host, _port, _ingested, _dropped,
                   stopCall, ret, handled, nrecv, nstarts, orphans, bound>>
    /\ UNCHANGED <<decodeVars, now, storeVars, analysisVars>>

\* ... and the rest of the tool, which works on flows and returns.
AnalyzeEnd ==
    /\ pass.pc = "analysing"
    /\ pass' = NoPass
    /\ UNCHANGED <<_running, _stop, _task, sock, _host, _port, _ingested, _dropped,
                   stopCall, ret, handled, nrecv, nstarts, orphans, bound>>
    /\ UNCHANGED <<decodeVars, now, storeVars, analysisVars>>

CollectNext ==
    \/ \E c \in Caps : Start(c)
    \/ \E c \in Caps : Stop(c)
    \/ \E c \in Caps : StopResume(c)
    \/ \E c \in Caps : TaskStart(c)
    \/ ReceiveJflow
    \/ ReceiveJson
    \/ \E c \in Caps : ReceiveError(c)
    \/ \E c \in Caps : WakeUp(c)
    \/ AnalyzeBegin
    \/ AnalyzeEnd

CollectInit ==
    /\ ServerConstructed
    /\ alphabet = "collect"

QuietInit ==
    /\ ServerConstructed
    /\ alphabet = "quiet"

SpecCollect == CollectInit /\ [][CollectNext]_vars

SpecQuiet == QuietInit /\ [][CollectNext]_vars

\* The loop runs every tool to its end and, however often tools take it,
\* every coroutine that is ready; nothing obliges a datagram, or a receive
\* error, to arrive.
Fairness ==
    /\ \A c \in Caps : SF_vars(TaskStart(c)) /\ SF_vars(WakeUp(c)) /\ SF_vars(StopResume(c))
    /\ WF_vars(AnalyzeEnd)

FairCollect == QuietInit /\ [][CollectNext]_vars /\ Fairness

(***************************************************************************)
(* C4: the jflow collector hands its decoder an exporter identity derived   *)
(* from the sender of each datagram, so a data set of sender B is never     *)
(* decoded by a template that only another sender A announced under the     *)
(* same source id and template id.                                          *)
(* Stated as is; the collector calls decode_jflow(data) and every sender    *)
(* shares the exporter "unknown".                                           *)
(***************************************************************************)
C4_TemplatesKeptApartBySender ==
    (handled.cap = "jflow_udp" /\ Len(handled.dg.sets) = 1 /\ handled.dg.sets[1].kind = "data")
        => LET k == <<"v9", handled.sender, handled.dg.sid, handled.dg.sets[1].tid>>
           IN k \notin DOMAIN announced => handled.flows = <<>>

(***************************************************************************)
(* C8: an analysis pass works from first to last on the list recent()       *)
(* returned at its start, and while it runs no collector appends to the     *)
(* store or evicts from it.                                                 *)
(***************************************************************************)
C8_PassOnOneSnapshot ==
    pass.pc = "analysing" =>
        /\ _flows = pass.held
        /\ pass.flows = recent(pass.held, WindowOf(pass.tool), now)

\* A pass in progress on a window that leaves out a stored record, while a
\* collector waits on its socket for datagrams that may still come.
C8_Witness ==
    /\ pass.pc = "analysing"
    /\ pass.flows # <<>>
    /\ Len(pass.flows) < Len(_flows)
    /\ \E c \in Caps : _task[c] = "receiving" /\ ~_stop[c]
    /\ nrecv < MaxRecv

(***************************************************************************)
(* C9: once stop() was called on a running collector it eventually returns, *)
(* the running flag false and the socket closed, even if no datagram ever   *)
(* arrives after the call.                                                  *)
(* Stated as is; the task looks at the stop event only between receives.    *)
(***************************************************************************)
C9_StopEventuallyReturns ==
    \A c \in Caps :
        (stopCall[c] = "waiting") ~>
            (stopCall[c] = "idle" /\ ret[c] = "stopped" /\ ~_running[c] /\ sock[c] = "closed")

(***************************************************************************)
(* C10: while a collector runs and stop() was not called, neither a receive *)
(* error nor a malformed datagram, nor one the decoder fails on, ends the    *)
(* receive loop: the task stays able to receive the next datagram.          *)
(* Stated as is; an exception of decode_jflow (see C1) ends the task.       *)
(***************************************************************************)
C10_ReceiveLoopSurvives ==
    \A c \in Caps :
        (_running[c] /\ ~_stop[c]) => _task[c] \in {"created", "receiving", "sleeping"}


(***************************************************************************)
(* C11  start() on a collector that is running returns "already running",  *)
(* makes no task and leaves host and port as they were; whatever the order *)
(* of start() and stop() calls, a start() made while a stop() waits for    *)
(* the task included, a collector has at most one receive task alive.      *)
(***************************************************************************)
LiveTasks(c) == orphans[c] + (IF Live(_task[c]) THEN 1 ELSE 0)

status(c) ==
    [name |-> c, running |-> _running[c], host |-> _host[c], port |-> _port[c],
     ingested |-> _ingested[c], dropped |-> _dropped[c]]

(***************************************************************************)
(* C12  While the socket of a collector is open, the port status() reports *)
(* is the port the socket is bound to, and it is not 0: after              *)
(* start(host, 0) it is the ephemeral port the kernel gave the socket.     *)
(***************************************************************************)
C12_StatusReportsBoundPort ==
    \A c \in Caps :
      sock[c] = "open" => status(c).port = bound[c] /\ status(c).port # 0

\* The step takes one datagram off a socket.
Receives == nrecv' = nrecv + 1

\* The store after the records of one more datagram: what it held, then the
\* records in decoder order, less the oldest records beyond its capacity.
Followed(q, flows, cap) ==
    LET all == q \o flows IN LastN(all, Min(cap, Len(all)))

(***************************************************************************)
(* C13  Every datagram a collector receives does exactly one of two        *)
(* things: the decoder returned k >= 1 records, all k are appended to the  *)
(* store, ingested grows by k and dropped stays; or it returned none, the  *)
(* store stays, dropped grows by 1 and ingested stays.  No step makes a    *)
(* counter smaller, stop() and start() included.                           *)
(***************************************************************************)
C13_EveryDatagramCounted ==
    [][/\ Receives =>
            LET c == handled'.cap
                k == Len(handled'.flows)
            IN \/ /\ k >= 1
                  /\ ~handled'.raised
                  /\ _flows' = Followed(_flows, handled'.flows, maxlen)
                  /\ _ingested'[c] = _ingested[c] + k
                  /\ _dropped'[c] = _dropped[c]
               \/ /\ k = 0
                  /\ _flows' = _flows
                  /\ _dropped'[c] = _dropped[c] + 1
                  /\ _ingested'[c] = _ingested[c]
       /\ \A c \in Caps : _ingested'[c] >= _ingested[c] /\ _dropped'[c] >= _dropped[c]]_vars

(***************************************************************************)
(* C14  With both collectors running on the one store, the records of a    *)
(* datagram are appended together and in decoder order, after everything   *)
(* earlier datagrams left in the store, and no other step touches the      *)
(* store: the records of a datagram are never apart and datagrams stand in *)
(* the order they were received.                                           *)
(***************************************************************************)
C14_DatagramsContiguousInOrder ==
    [][IF Receives /\ ~handled'.raised
       THEN _flows' = Followed(_flows, handled'.flows, maxlen)
       ELSE _flows' = _flows]_vars

\* Both collectors receive; the store holds a record of a jflow datagram and
\* after it the two records of the JSON datagram that came last.
C14_Witness ==
    /\ \A c \in Caps : _task[c] = "receiving"
    /\ handled.cap = "json_udp"
    /\ Len(handled.flows) = 2
    /\ handled.flows[1] # handled.flows[2]
    /\ _ingested["jflow_udp"] = 1
    /\ Len(_flows) = 3
    /\ SubSeq(_flows, 2, 3) = handled.flows

(***************************************************************************)
(* The baseline capability on a store that is fed: bounds and inputs         *)
(***************************************************************************)
MaxPasses == 3

MaxFeeds == 3

MaxWaits == 1

\* The seconds one wait lasts: the default cooldown, and more than the window.
Wait == 120

\* configure(...) sets every setting from its arguments, with int(), float()
\* and str() of values that have that type already.
configure(kw) ==
    [_window_seconds |-> kw.window_seconds,
     _min_samples_per_key |-> kw.min_samples_per_key,
     _alpha |-> kw.alpha,
     _z_threshold |-> kw.z_threshold,
     _min_updates |-> kw.min_updates,
     _shift_threshold |-> kw.shift_threshold,
     _shift_min_total |-> kw.shift_min_total,
     _group_mode |-> kw.group_mode,
     _cooldown_seconds |-> kw.cooldown_seconds]

\* Settings under which the windows of this model are judged: two samples
\* make a key count, two flows make a distribution, and a flow stays in the
\* window for as long as an alert key stays in cooldown.
Sensitive ==
    [window_seconds |-> 120, min_samples_per_key |-> 2, alpha |-> Dec(15, 100),
     z_threshold |-> FInt(2), min_updates |-> 1, group_mode |-> "pair",
     cooldown_seconds |-> 120, shift_threshold |-> Dec(5, 10), shift_min_total |-> FInt(2)]

\* Sensitive with a shorter window and a longer warm-up.
Patient == [Sensitive EXCEPT !.window_seconds = 60, !.min_updates = 2]

Configurations == IF alphabet = "reconfigure" THEN {Sensitive, Patient} ELSE {Sensitive}

Calm == FInt(42)

High == FInt(200)

Measured(src, latency_ms, ts) ==
    FlowRecord(ts, src, "10.0.0.2", 1234, 443, "TCP", latency_ms, 0, 0)

\* What reaches the store in one add_many: two calm flows of one pair, or a
\* slow flow of that pair and a slow flow of another.
Feeds(ts) ==
    {<<Measured("10.0.0.1", Calm, ts), Measured("10.0.0.1", Calm, ts)>>,
     <<Measured("10.0.0.1", High, ts), Measured("10.0.0.3", High, ts)>>}

\* The keys of the flows fed.  They are two at most, and the sum of two terms
\* is the same in either order.
FedKeys(mode) ==
    UNION {{_key_builder(flows[i], mode) : i \in 1..Len(flows)} : flows \in Feeds(0)}

\* qualified, after update_and_detect was called with these counts
Qualified(q, dimension, counts, min_total) ==
    IF FLess(FInt(SumCounts(counts)), min_total) THEN q
    ELSE DictSet(q, dimension, counts)

RECURSIVE FedAfter(_, _)
FedAfter(f, seen) ==
    IF seen = <<>> THEN f
    ELSE LET km == <<Head(seen).key, Head(seen).metric>>
         IN FedAfter(DictSet(f, km, DictGet(f, km, {}) \cup {Head(seen).current}), Tail(seen))

\* The alert keys of the events a pass returned
Alerted(r) ==
    {<<"anomaly", r.anomalies[i].key, r.anomalies[i].metric>> : i \in 1..Len(r.anomalies)}
    \cup (IF r.shift.shift THEN {<<"shift", r.shift.dimension>>} ELSE {})

\* The configure tool
\* configure that also makes a new BaselineModel and ShiftModel and empties
\* the cooldown map
Configure_Forgetting ==
    /\ \E kw \in Configurations : config' = configure(kw)
    /\ _points' = EmptyDict
    /\ _prev' = EmptyDict
    /\ _last_alert_ts' = EmptyDict
    /\ UNCHANGED <<report, fed, lastEvent, npasses, nfeeds, qualified>>
    /\ UNCHANGED <<decodeVars, now, storeVars, collectVars, monitorVars, registryVars>>

Configure ==
    /\ \E kw \in Configurations : config' = configure(kw)
    /\ UNCHANGED <<_points, _prev, _last_alert_ts, report, fed, lastEvent, npasses, nfeeds,
                   qualified>>
    /\ UNCHANGED <<decodeVars, now, storeVars, collectVars, monitorVars, registryVars>>

\* ctx.store.add_many(flows) with flows observed now
Feed ==
    /\ \E flows \in Feeds(now) :
         /\ nfeeds < MaxFeeds
         /\ _flows' = add_many(_flows, flows, maxlen)
    /\ nfeeds' = nfeeds + 1
    /\ UNCHANGED <<maxlen, appended, storeOp, now, decodeVars, collectVars, monitorVars, registryVars>>
    /\ UNCHANGED <<config, _points, _prev, _last_alert_ts, report, fed, lastEvent, npasses,
                   qualified>>

Elapse ==
    /\ now < 1000 + MaxWaits * Wait
    /\ now' = now + Wait
    /\ UNCHANGED <<decodeVars, storeVars, collectVars, analysisVars>>

\* The analyze_once tool, from recent() to its return
AnalyzeOnce ==
    /\ npasses < MaxPasses
    /\ \E flows \in {recent(_flows, config._window_seconds, now)} :
       \E r \in {analyze_once(flows, _points, _last_alert_ts, _prev, config, now,
                                Enumerated(FedKeys(config._group_mode)))} :
          /\ _points' = r._points
          /\ _prev' = r._prev
          /\ _last_alert_ts' = r._last_alert_ts
          /\ report' = [name |-> "analyze_once", flows |-> flows,
                        lat_by_key |-> r.lat_by_key, seen |-> r.seen,
                        detected |-> r.detected, earlier |-> lastEvent,
                        returned |-> [ok |-> r.ok, group_mode |-> r.group_mode,
                                      window_seconds |-> r.window_seconds,
                                      keys_seen |-> r.keys_seen,
                                      anomalies |-> r.anomalies, shift |-> r.shift]]
          /\ fed' = FedAfter(fed, r.seen)
          /\ lastEvent' = [k \in DOMAIN lastEvent \cup Alerted(r) |->
                             IF k \in Alerted(r) THEN now ELSE lastEvent[k]]
          /\ qualified' = Qualified(qualified, <<"count_by", config._group_mode>>,
                                    Counted(r.lat_by_key), config._shift_min_total)
    /\ npasses' = npasses + 1
    /\ UNCHANGED <<config, nfeeds>>
    /\ UNCHANGED <<decodeVars, now, storeVars, collectVars, monitorVars, registryVars>>

BaselineNext == Configure \/ Feed \/ Elapse \/ AnalyzeOnce

BaselineInit ==
    /\ ServerConstructed
    /\ alphabet = "baseline"

SpecBaseline == BaselineInit /\ [][BaselineNext]_vars

\* A step that is one analyze_once pass
PassStep == npasses' = npasses + 1

\* The keys of a window with samples enough to be judged
Judged(lat_by_key, self) ==
    {lat_by_key[i][1] : i \in {j \in 1..Len(lat_by_key) :
                                 Len(lat_by_key[j][2]) >= self._min_samples_per_key}}

Metrics == {"p50_ms", "p95_ms"}

\* What a pass noted for a metric of a key it judged
Notes(seen, key, metric) ==
    {i \in 1..Len(seen) : seen[i].key = key /\ seen[i].metric = metric}

(***************************************************************************)
(* C15: in a pass, for every key with at least min_samples_per_key samples   *)
(* and for each of p50_ms and p95_ms, the anomaly is looked for against the  *)
(* baseline point as it stood before the pass, and the point the pass leaves *)
(* is that point updated once with the value of the window, whether or not  *)
(* an anomaly was detected, returned, or held back by the cooldown.          *)
(***************************************************************************)
C15_DetectThenUpdateOnce ==
    [][PassStep =>
        \A key \in Judged(report'.lat_by_key, config), metric \in Metrics :
            /\ Cardinality(Notes(report'.seen, key, metric)) = 1
            /\ \A i \in Notes(report'.seen, key, metric) :
                 LET note == report'.seen[i]
                     before == get_point(_points, key, metric)
                 IN /\ note.current
                         = (IF metric = "p50_ms"
                            THEN compute_window_stats(ItemGet(report'.lat_by_key, key, <<>>)).p50
                            ELSE compute_window_stats(ItemGet(report'.lat_by_key, key, <<>>)).p95)
                    /\ note.det = detect_anomaly(_points, key, metric, note.current,
                                                 config._z_threshold, config._min_updates)
                    /\ _points'[<<key, metric>>]
                         = BaselinePoint_update(before, note.current, config._alpha, now)
                    /\ _points'[<<key, metric>>].n = before.n + 1]_vars

\* A pass has just held back, by the cooldown, an anomaly it detected on a
\* baseline it then updated for the third time.
C15_Witness ==
    /\ report.name = "analyze_once"
    /\ \E i \in 1..Len(report.seen) :
         /\ report.seen[i].det.anomaly
         /\ ~report.seen[i].emitted
         /\ _points[<<report.seen[i].key, report.seen[i].metric>>].n = 3

(***************************************************************************)
(* C16: when the baseline of a metric of a key has been updated at least    *)
(* min_updates times, every time with the same value c, a pass whose window *)
(* value differs from c detects an anomaly with z-score +infinity, and a     *)
(* pass whose window value is c detects none.                                *)
(***************************************************************************)
C16_ZeroVarianceGuard ==
    [][PassStep =>
        \A i \in 1..Len(report'.seen) :
            LET note == report'.seen[i]
                km == <<note.key, note.metric>>
                steady == /\ get_point(_points, note.key, note.metric).n >= config._min_updates
                          /\ km \in DOMAIN fed
                          /\ Cardinality(fed[km]) = 1
            IN steady =>
                 /\ note.det.anomaly <=> {note.current} # fed[km]
                 /\ note.det.anomaly => note.det.zscore = Inf]_vars

(***************************************************************************)
(* C17: a pass returns an anomaly event for a metric of a key only if the   *)
(* baseline point of that metric and key had been updated at least          *)
(* min_updates times when the pass began; a key and metric judged before     *)
(* that gets no event whatever the window holds.                             *)
(***************************************************************************)
C17_NoAnomalyBeforeMinUpdates ==
    [][PassStep =>
        \A i \in 1..Len(report'.returned.anomalies) :
            LET ev == report'.returned.anomalies[i]
            IN get_point(_points, ev.key, ev.metric).n >= config._min_updates]_vars

\* A pass has just judged, for the first time, a key whose window value is
\* slow, far from the mean 0.0 and the variance 0.0 of a fresh point, and
\* returned no anomaly for it.
C17_Witness ==
    /\ report.name = "analyze_once"
    /\ report.returned.anomalies = <<>>
    /\ \E i \in 1..Len(report.seen) :
         /\ _points[<<report.seen[i].key, report.seen[i].metric>>].n = 1
         /\ report.seen[i].current = High
         /\ ~report.seen[i].det.anomaly

\* The alert keys of what a pass detected, returned or not
Detected(rep) ==
    {<<"anomaly", rep.seen[i].key, rep.seen[i].metric>> :
        i \in {j \in 1..Len(rep.seen) : rep.seen[j].det.anomaly}}
    \cup (IF rep.detected.shift THEN {<<"shift", rep.detected.dimension>>} ELSE {})

\* An event was returned for the alert key less than cooldown_seconds ago
Cooling(k) ==
    k \in DOMAIN lastEvent /\ now - lastEvent[k] < config._cooldown_seconds

(***************************************************************************)
(* C18: for every alert key, of an anomaly of a metric of a key or of a      *)
(* shift of a dimension, a pass returns an event only if no event was        *)
(* returned for that alert key less than cooldown_seconds before, so that    *)
(* two events of one alert key are at least cooldown_seconds apart; a        *)
(* detection held back by the cooldown returns nothing and leaves the time   *)
(* kept for the alert key as it was, and a pass changes the time kept for    *)
(* no alert key but those whose events it returns.                           *)
(***************************************************************************)
C18_CooldownPerAlertKey ==
    [][PassStep =>
        /\ \A k \in Alerted(report'.returned) :
             /\ ~Cooling(k)
             /\ k \in Detected(report')
             /\ _last_alert_ts'[k] = now
        /\ \A k \in Detected(report') :
             Cooling(k) => /\ k \notin Alerted(report'.returned)
                           /\ _last_alert_ts'[k] = _last_alert_ts[k]
        /\ \A k \in DOMAIN _last_alert_ts' \ Alerted(report'.returned) :
             /\ k \in DOMAIN _last_alert_ts
             /\ _last_alert_ts'[k] = _last_alert_ts[k]]_vars

\* A pass has just returned the second event of an alert key, with the
\* cooldown over since the first, and has left alone the time kept for
\* another alert key.
C18_Witness ==
    /\ report.name = "analyze_once"
    /\ \E k \in Alerted(report.returned) :
         /\ k \in DOMAIN report.earlier
         /\ now - report.earlier[k] >= config._cooldown_seconds
         /\ config._cooldown_seconds > 0
    /\ \E k \in DOMAIN _last_alert_ts : _last_alert_ts[k] < now

(***************************************************************************)
(* The latency monitor and its deduper, on a store that holds a window      *)
(***************************************************************************)
\* The flows of one key, 10.0.0.1:port -> 10.0.0.2:443/TCP, observed at ts
Probed(port, latencies, ts) ==
    [i \in 1..Len(latencies) |->
        FlowRecord(ts, "10.0.0.1", "10.0.0.2", port, 443, "TCP", FInt(latencies[i]), 0, 0)]

\* Five samples of one key, the fourth of them at 200 ms
Example == Probed(1, <<10, 20, 30, 200, 220>>, 1000)

\* The same samples in another order, among four slower samples of a second key
Mixed ==
    <<Probed(2, <<250>>, 1000)[1]>> \o Probed(1, <<220, 10, 200>>, 1000)
    \o Probed(2, <<260, 250>>, 1000) \o Probed(1, <<30, 20>>, 1000)
    \o Probed(2, <<270>>, 1000)

\* One sample each of 51 keys: 200 ms on the first key, more on every other
Flood ==
    [i \in 1..51 |->
        Probed(i, <<IF i = 1 THEN 200 ELSE 300 - i>>, 1000)[1]]

\* What the collectors have put into the store
Ingested == {Example, Mixed}

\* The set_thresholds calls made
ThresholdCalls ==
    {[threshold_ms |-> FInt(210)], [min_samples |-> 1], [cooldown_seconds |-> 240]}

\* The keys should_alert is asked about on its own
AskedKeys == {FlowRecord_key(Example[1]), FlowRecord_key(Mixed[1])}

\* The flow keys of rows or alerts
FlowsOf(rows) == {rows[i].flow : i \in 1..Len(rows)}

\* granted, after alerts were returned at time
Stamped(g, flows, time) ==
    [k \in DOMAIN g \cup flows |-> IF k \in flows THEN time ELSE g[k]]

\* The set_thresholds tool
SetThresholds ==
    /\ \E kw \in ThresholdCalls :
       \E r \in {set_thresholds(monitor, cooldown_seconds, kw)} :
          /\ monitor' = r.self
          /\ cooldown_seconds' = r.cooldown_seconds
          /\ asked' = [name |-> "set_thresholds", kw |-> kw]
    /\ UNCHANGED <<last_alert_ts, analysis, granted>>
    /\ UNCHANGED <<decodeVars, now, storeVars, collectVars, baselineVars, registryVars>>

\* The analyze_latency tool, without seconds
\* analyze_latency that asks the deduper about every offender it reports
AnalyzeLatency_Consuming ==
    /\ \E flows \in {recent(_flows, monitor.window_seconds, now)} :
       \E r \in {analyze(monitor, flows)} :
          /\ analysis' = r
          /\ asked' = [name |-> "analyze", flows |-> flows]
          /\ last_alert_ts' = build_alerts(r, last_alert_ts, cooldown_seconds, now).last_alert_ts
    /\ UNCHANGED <<monitor, cooldown_seconds, granted>>
    /\ UNCHANGED <<decodeVars, now, storeVars, collectVars, baselineVars, registryVars>>

AnalyzeLatency ==
    /\ \E flows \in {recent(_flows, monitor.window_seconds, now)} :
       \E r \in {analyze(monitor, flows)} :
          /\ analysis' = r
          /\ asked' = [name |-> "analyze", flows |-> flows]
    /\ UNCHANGED <<monitor, cooldown_seconds, last_alert_ts, granted>>
    /\ UNCHANGED <<decodeVars, now, storeVars, collectVars, baselineVars, registryVars>>

\* monitor.build_alerts(analysis) on the analysis last returned
BuildAlerts ==
    /\ analysis # NoAnalysis
    /\ \E r \in {build_alerts(analysis, last_alert_ts, cooldown_seconds, now)} :
          /\ last_alert_ts' = r.last_alert_ts
          /\ asked' = [name |-> "build_alerts", analysis |-> analysis,
                       returned |-> r.alerts]
          /\ granted' = Stamped(granted, FlowsOf(r.alerts), now)
    /\ UNCHANGED <<monitor, cooldown_seconds, analysis>>
    /\ UNCHANGED <<decodeVars, now, storeVars, collectVars, baselineVars, registryVars>>

\* The monitor_once tool
MonitorOnce ==
    /\ \E flows \in {recent(_flows, monitor.window_seconds, now)} :
       \E a \in {analyze(monitor, flows)} :
       \E r \in {build_alerts(a, last_alert_ts, cooldown_seconds, now)} :
          /\ analysis' = a
          /\ last_alert_ts' = r.last_alert_ts
          /\ asked' = [name |-> "monitor_once", flows |-> flows, analysis |-> a,
                       returned |-> r.alerts]
          /\ granted' = Stamped(granted, FlowsOf(r.alerts), now)
    /\ UNCHANGED <<monitor, cooldown_seconds>>
    /\ UNCHANGED <<decodeVars, now, storeVars, collectVars, baselineVars, registryVars>>

\* monitor.deduper.should_alert(k)
ShouldAlert(k) ==
    /\ \E r \in {should_alert(last_alert_ts, cooldown_seconds, k, now)} :
          /\ last_alert_ts' = r.last_alert_ts
          /\ asked' = [name |-> "should_alert", key |-> k, returned |-> r.returned]
          /\ granted' = IF r.returned THEN Stamped(granted, {k}, now) ELSE granted
    /\ UNCHANGED <<monitor, cooldown_seconds, analysis>>
    /\ UNCHANGED <<decodeVars, now, storeVars, collectVars, baselineVars, registryVars>>

MonitorNext ==
    \/ SetThresholds
    \/ AnalyzeLatency
    \/ BuildAlerts
    \/ MonitorOnce
    \/ \E k \in AskedKeys : ShouldAlert(k)
    \/ Elapse

\* FlowStore() with its default maxlen, after the collectors ingested a window
MonitorServer(windows) ==
    /\ CollectorsConstructed
    /\ AnalysisConstructed
    /\ _flows \in windows
    /\ maxlen = 200000
    /\ appended = <<>>
    /\ storeOp = NoStoreOp
    /\ now = 1000
    /\ _V9_CACHE = EmptyDict
    /\ _IPFIX_CACHE = EmptyDict
    /\ family = "v9"
    /\ call = NoCall
    /\ result = [flows |-> <<>>, raised |-> FALSE]
    /\ announced = EmptyDict
    /\ ncalls = 0
    /\ scan = NoScan

MonitorInit ==
    /\ MonitorServer(Ingested)
    /\ alphabet = "monitor"

SpecMonitor == MonitorInit /\ [][MonitorNext]_vars

\* The analyze_latency tool under the settings made, also on a window of more
\* keys than analyze() returns
OffendersNext == SetThresholds \/ AnalyzeLatency \/ Elapse

OffendersInit ==
    /\ MonitorServer(Ingested \cup {Flood})
    /\ alphabet = "offenders"

SpecOffenders == OffendersInit /\ [][OffendersNext]_vars

\* A step that is one call on the monitor or its deduper, by the name of the call
Asks(names) == asked'.name \in names /\ now' = now

\* should_alert has never returned True for k, or cooldown_seconds, as they
\* are when it is called, have passed since it last did
Due(k) == k \notin DOMAIN granted \/ now - granted[k] >= cooldown_seconds

\* A step leaves the stored timestamps of all keys but these as they were
Untouched(keys) ==
    \A j \in (DOMAIN last_alert_ts \cup DOMAIN last_alert_ts') \ keys :
        /\ j \in DOMAIN last_alert_ts
        /\ j \in DOMAIN last_alert_ts'
        /\ last_alert_ts'[j] = last_alert_ts[j]

(***************************************************************************)
(* C19: should_alert(key) returns True iff it has never returned True for   *)
(* the key or at least cooldown_seconds, the value in force at the call,    *)
(* have passed since it last did; a call that returns False leaves the      *)
(* stored timestamps as they were, and a call changes no other key's.       *)
(* build_alerts returns the alerts of exactly the offenders that are due,   *)
(* in their order: the offender's alert the first time, none when repeated  *)
(* within the cooldown.                                                     *)
(***************************************************************************)
C19_AlertOncePerCooldown ==
    [][/\ Asks({"should_alert"}) =>
             /\ asked'.returned <=> Due(asked'.key)
             /\ ~asked'.returned => last_alert_ts' = last_alert_ts
             /\ Untouched({asked'.key})
       /\ Asks({"build_alerts", "monitor_once"}) =>
             LET offenders == asked'.analysis.offenders
                 due(r) == Due(r.flow)
                 alerts == asked'.returned
             IN /\ [i \in 1..Len(alerts) |-> alerts[i].flow]
                     = [i \in 1..Len(SelectSeq(offenders, due)) |->
                           SelectSeq(offenders, due)[i].flow]
                /\ Untouched(FlowsOf(alerts))]_vars

\* build_alerts, repeated within the cooldown on an analysis with an offender
\* it has alerted on, has returned no alert
C19_Witness ==
    /\ asked.name = "build_alerts"
    /\ asked.analysis.offenders # <<>>
    /\ asked.returned = <<>>
    /\ \A k \in FlowsOf(asked.analysis.offenders) :
          k \in DOMAIN granted /\ now - granted[k] < cooldown_seconds

\* The keys of flows
KeysOf(flows) == {FlowRecord_key(flows[i]) : i \in 1..Len(flows)}

\* The sorted samples of key k among flows
SamplesOf(flows, k) ==
    LET same(f) == FlowRecord_key(f) = k
        of_key == SelectSeq(flows, same)
    IN Sorted([i \in 1..Len(of_key) |-> of_key[i].latency_ms])

\* The element at index int(0.95 * (n - 1)) of the sorted samples of k
P95Of(flows, k) ==
    LET sorted == SamplesOf(flows, k)
    IN sorted[FFloor(FMul(Dec(95, 100), FInt(Len(sorted) - 1))) + 1]

\* Key k has min_samples samples or more and a p95 of threshold_ms or more
Offending(self, flows, k) ==
    /\ Len(SamplesOf(flows, k)) >= self.min_samples
    /\ FLeq(self.threshold_ms, P95Of(flows, k))

(***************************************************************************)
(* C20: analyze reports a key as an offender only if it has min_samples     *)
(* samples or more and its nearest-rank p95 is threshold_ms or more (so a   *)
(* group below min_samples is never an offender), and it reports every      *)
(* such key unless it reports 50 offenders, none with a p95 below that      *)
(* key's.                                                                   *)
(***************************************************************************)
C20_OffendersAmongTop50 ==
    [][Asks({"analyze", "monitor_once"}) =>
          LET flows == asked'.flows
              offenders == analysis'.offenders
              reported == FlowsOf(offenders)
          IN /\ \A k \in reported :
                   k \in KeysOf(flows) /\ Offending(monitor, flows, k)
             /\ \A k \in KeysOf(flows) \ reported :
                   Offending(monitor, flows, k) =>
                      /\ Len(offenders) = 50
                      /\ \A i \in 1..Len(offenders) :
                            FLeq(P95Of(flows, k), offenders[i].p95_ms)]_vars

\* analyze has reported 50 offenders of a window in which 51 keys qualify
C20_Witness ==
    /\ asked.name = "analyze"
    /\ Len(analysis.offenders) = 50
    /\ Cardinality({k \in KeysOf(asked.flows) :
                       Offending(monitor, asked.flows, k)}) = 51

\* C20 as stated: a key is reported as an offender iff it has min_samples
\* samples or more and its nearest-rank p95 is threshold_ms or more
C20_OffenderIff ==
    [][Asks({"analyze", "monitor_once"}) =>
          \A k \in KeysOf(asked'.flows) :
              k \in FlowsOf(analysis'.offenders)
                 <=> Offending(monitor, asked'.flows, k)]_vars

(***************************************************************************)
(* A ShiftModel on its own, called with the settings the capability is      *)
(* constructed with                                                         *)
(***************************************************************************)
Dimensions == {<<"count_by", "pair">>, <<"count_by", "src">>}

\* The counts offered: nine in ten to a, a and b even, c alone and short of
\* min_total, c alone
CountsOffered ==
    {<<<<"a", 180>>, <<"b", 20>>>>, <<<<"a", 100>>, <<"b", 100>>>>,
     <<<<"c", 100>>>>, <<<<"c", 400>>>>}

\* The orders in which iterating a set may yield its members
Orders(S) ==
    {o \in [1..Cardinality(S) -> S] : \A i, j \in 1..Cardinality(S) : o[i] = o[j] => i = j}

\* The keys of the distribution stored for a dimension
PriorKeys(dimension) ==
    IF dimension \in DOMAIN _prev THEN Keys(_prev[dimension].dist) ELSE {}

\* self._shift.update_and_detect(dimension, counts, ...)
ShiftCall ==
    /\ \E dimension \in Dimensions, counts \in CountsOffered :
       \E order \in Orders(PriorKeys(dimension) \cup Keys(counts)) :
       \E r \in {update_and_detect(_prev, dimension, counts, Defaults._shift_threshold,
                                   Defaults._shift_min_total, Defaults._window_seconds,
                                   now, order)} :
          /\ _prev' = r._prev
          /\ report' = [name |-> "update_and_detect", dimension |-> dimension,
                        counts |-> counts, threshold |-> Defaults._shift_threshold,
                        min_total |-> Defaults._shift_min_total, order |-> order,
                        returned |-> r.event]
          /\ qualified' = Qualified(qualified, dimension, counts, Defaults._shift_min_total)
    /\ UNCHANGED <<config, _points, _last_alert_ts, fed, lastEvent, npasses, nfeeds>>
    /\ UNCHANGED <<decodeVars, now, storeVars, collectVars, monitorVars, registryVars>>

ShiftInit ==
    /\ ServerConstructed
    /\ alphabet = "shift"

SpecShift == ShiftInit /\ [][ShiftCall]_vars

(***************************************************************************)
(* l1_distance on the distributions of two dicts of counts                  *)
(***************************************************************************)
\* The counts normalized: one key, two keys one to two, two keys nine to
\* one, another key, a count of zero, none
DistanceCounts ==
    {<<<<"a", 1>>>>, <<<<"a", 1>>, <<"b", 2>>>>, <<<<"a", 9>>, <<"b", 1>>>>,
     <<<<"c", 1>>>>, <<<<"c", 0>>>>, <<>>}

\* l1_distance(p, q) and l1_distance(q, p) for the distributions of two
\* dicts of counts, in a process that has not called it before
Distance ==
    /\ report = NoReport
    /\ \E counts \in DistanceCounts \X DistanceCounts :
       \E p \in {_normalize(counts[1])}, q \in {_normalize(counts[2])} :
       \E there \in Orders(Keys(p) \cup Keys(q)), back \in Orders(Keys(p) \cup Keys(q)) :
          report' = [name |-> "l1_distance", counts |-> counts, p |-> p, q |-> q,
                     there |-> there, back |-> back,
                     returned |-> l1_distance(p, q, there),
                     swapped |-> l1_distance(q, p, back)]
    /\ UNCHANGED <<config, _points, _prev, _last_alert_ts, fed, lastEvent, npasses, nfeeds,
                   qualified>>
    /\ UNCHANGED <<decodeVars, now, storeVars, collectVars, monitorVars, registryVars>>

DistanceInit ==
    /\ ServerConstructed
    /\ alphabet = "distance"

SpecDistance == DistanceInit /\ [][Distance]_vars

\* A step that is one update_and_detect call on the ShiftModel alone
ShiftStep == report'.name = "update_and_detect"

\* The total of the counts reaches min_total
Qualifies(counts, min_total) == ~FLess(FInt(SumCounts(counts)), min_total)

(***************************************************************************)
(* C21: update_and_detect called with sum(counts) < min_total returns no    *)
(* event and leaves the stored prior of every dimension as it was; so the   *)
(* prior stored for a dimension is always the distribution of the last      *)
(* call for it that reached min_total.                                      *)
(***************************************************************************)
C21_ShortCallLeavesPriors ==
    [][ShiftStep =>
          /\ ~Qualifies(report'.counts, report'.min_total) =>
                /\ ~report'.returned.shift
                /\ _prev' = _prev
          /\ \A d \in DOMAIN _prev' \ {report'.dimension} :
                d \in DOMAIN _prev /\ _prev'[d] = _prev[d]
          /\ DOMAIN _prev' = DOMAIN qualified'
          /\ \A d \in DOMAIN _prev' : _prev'[d].dist = _normalize(qualified'[d])]_vars

\* A call short of min_total has been made for a dimension that has a prior,
\* while the other dimension has one too
C21_Witness ==
    /\ report.name = "update_and_detect"
    /\ ~Qualifies(report.counts, report.min_total)
    /\ ~report.returned.shift
    /\ DOMAIN _prev = Dimensions
    /\ _prev[report.dimension].dist # _normalize(report.counts)

\* What a pass, or a call on the ShiftModel alone, handed to update_and_detect
\* and what that returned
ShiftCalled ==
    IF ShiftStep
    THEN [dimension |-> report'.dimension, counts |-> report'.counts,
          threshold |-> report'.threshold, min_total |-> report'.min_total,
          order |-> report'.order, event |-> report'.returned]
    ELSE [dimension |-> <<"count_by", config._group_mode>>,
          counts |-> Counted(report'.lat_by_key),
          threshold |-> config._shift_threshold, min_total |-> config._shift_min_total,
          order |-> Enumerated(FedKeys(config._group_mode)), event |-> report'.detected]

(***************************************************************************)
(* C22: for each dimension, the first update_and_detect call whose total    *)
(* reaches min_total returns no event and stores its distribution; every    *)
(* later such call is compared with the distribution of the one before it   *)
(* for that dimension, and stores its own in its place whether or not it    *)
(* returns an event, also when analyze_once holds the event back because    *)
(* of the cooldown.                                                         *)
(***************************************************************************)
C22_PrimedThenComparedWithLast ==
    [][(ShiftStep \/ PassStep) =>
          \A c \in {ShiftCalled} : \A current \in {_normalize(c.counts)} :
             Qualifies(c.counts, c.min_total) =>
                /\ _prev'[c.dimension].dist = current
                /\ c.dimension \notin DOMAIN qualified => ~c.event.shift
                /\ c.dimension \in DOMAIN qualified =>
                      \A before \in {_normalize(qualified[c.dimension])} :
                         c.event.shift <=>
                            FLeq(c.threshold, SumOver(c.order, before, current))]_vars

\* A pass has held back, because of the cooldown, a shift it detected, and
\* the distribution of its window is the prior now
C22_Witness ==
    /\ report.name = "analyze_once"
    /\ report.detected.shift
    /\ ~report.returned.shift.shift
    /\ _prev[report.detected.dimension].dist = _normalize(Counted(report.lat_by_key))

C24_DistanceSymmetricWithinTwo ==
    report.name = "l1_distance" =>
        /\ report.returned = report.swapped
        /\ report.p = report.q => report.returned = FZero
        /\ (report.p # <<>> /\ report.q # <<>> /\ Keys(report.p) \cap Keys(report.q) = {})
              => report.returned = FInt(2)
        /\ FLeq(FZero, report.returned)
        /\ FLeq(report.returned, FInt(2))

(***************************************************************************)
(* The capability configured with an alpha outside [0, 1]                   *)
(***************************************************************************)
\* configure(alpha=-1.0, ...), the other settings as in Sensitive
ConfigureAlpha ==
    /\ config' = configure([Sensitive EXCEPT !.alpha = FInt(-1)])
    /\ UNCHANGED <<_points, _prev, _last_alert_ts, report, fed, lastEvent, npasses, nfeeds,
                   qualified>>
    /\ UNCHANGED <<decodeVars, now, storeVars, collectVars, monitorVars, registryVars>>

AlphaNext == ConfigureAlpha \/ Feed \/ Elapse \/ AnalyzeOnce

AlphaInit ==
    /\ ServerConstructed
    /\ alphabet = "alpha"

SpecAlpha == AlphaInit /\ [][AlphaNext]_vars

(***************************************************************************)
(* C28: after any configure and analyze_once calls, whatever the alpha,     *)
(* every baseline point has var >= 0, and n = 0 exactly for the points      *)
(* never updated.                                                           *)
(***************************************************************************)
C28_VarNeverNegative ==
    \A km \in DOMAIN _points :
        /\ ~_points[km].var.neg
        /\ _points[km].n = 0 <=> km \notin DOMAIN fed

(***************************************************************************)
(* C29: a point fed only the constant value c keeps mean = c and var = 0    *)
(* after every update.                                                      *)
(***************************************************************************)
C29_ConstantFeedKeepsMean ==
    \A km \in DOMAIN _points :
        (km \in DOMAIN fed /\ Cardinality(fed[km]) = 1) =>
            /\ {_points[km].mean} = fed[km]
            /\ _points[km].var = FZero

(***************************************************************************)
(* The registry of a server, after its capabilities were loaded             *)
(***************************************************************************)
\* The capability objects handed to register()
CapabilitiesOffered == {Capability(SortedNames[i], id) : i \in 1..Len(SortedNames), id \in {1, 2}}

Register ==
    /\ \E cap \in CapabilitiesOffered :
       \E r \in {register(_caps, cap)} :
          /\ _caps' = r._caps
          /\ registryOp' = [name |-> "register", cap |-> cap, raised |-> r.raised]
    /\ UNCHANGED <<decodeVars, now, storeVars, collectVars, baselineVars, monitorVars>>

Get ==
    /\ \E name \in {SortedNames[i] : i \in 1..Len(SortedNames)} :
          registryOp' = [name |-> "get", of |-> name, got |-> CapabilityRegistry_get(_caps, name)]
    /\ UNCHANGED <<_caps, decodeVars, now, storeVars, collectVars, baselineVars, monitorVars>>

List ==
    /\ registryOp' = [name |-> "list", returned |-> list(_caps)]
    /\ UNCHANGED <<_caps, decodeVars, now, storeVars, collectVars, baselineVars, monitorVars>>

RegistryNext == Register \/ Get \/ List

RegistryInit ==
    /\ ServerConstructed
    /\ alphabet = "registry"

SpecRegistry == RegistryInit /\ [][RegistryNext]_vars

(***************************************************************************)
(* C30: register of a capability whose name is registered raises and        *)
(* leaves the registry as it was: get(name) returns the instance            *)
(* registered first, list() is as before, and list() has no name twice.     *)
(***************************************************************************)
C30_DuplicateNameRejected ==
    [][/\ \A name \in DOMAIN _caps :
             /\ name \in DOMAIN _caps'
             /\ CapabilityRegistry_get(_caps', name) = CapabilityRegistry_get(_caps, name)
             /\ (registryOp'.name = "register" /\ registryOp'.cap.name = name) =>
                   /\ registryOp'.raised = "ValueError"
                   /\ list(_caps') = list(_caps)
       /\ registryOp'.name = "list" =>
             \A i, j \in 1..Len(registryOp'.returned) :
                 registryOp'.returned[i] = registryOp'.returned[j] => i = j]_vars

\* A second capability object under a registered name has been rejected, and
\* the first is the one get() returns
C30_Witness ==
    /\ registryOp.name = "register"
    /\ registryOp.raised = "ValueError"
    /\ CapabilityRegistry_get(_caps, registryOp.cap.name).returned # registryOp.cap

(***************************************************************************)
(* JsonUdpCapability._decode on the payloads a sender can put in a datagram *)
(***************************************************************************)
JNoSrc ==
    JDict([k \in {"src", "dst", "latency_ms"} |->
            CASE k = "src" -> <<"str", "">>
              [] k = "dst" -> <<"str", "b">>
              [] k = "latency_ms" -> <<"int", 1>>])

JOwing ==
    JDict([k \in {"src", "dst", "latency_ms", "bytes", "packets"} |->
            CASE k = "src" -> <<"str", "a">>
              [] k = "dst" -> <<"str", "b">>
              [] k = "latency_ms" -> <<"int", 1>>
              [] k = "bytes" -> <<"int", -5>>
              [] k = "packets" -> <<"int", -1>>])

JsonObjects == {JGood, JNow, JNoLatency, JBadNumber, JNoSrc, JOwing}

JsonWire ==
    {[kind |-> "invalid"], [kind |-> "scalar"]}
    \cup JsonObjects
    \cup {[kind |-> "list", items |-> <<a, b>>] : a, b \in JsonObjects}

JsonDecode ==
    /\ \E payload \in JsonWire :
         /\ call' = [decoder |-> "json", exporter |-> "", dg |-> payload]
         /\ result' = [flows |-> _decode(payload, now), raised |-> FALSE]
    /\ UNCHANGED <<_V9_CACHE, _IPFIX_CACHE, family, alphabet, announced, ncalls, scan, now,
                   storeVars, collectVars, analysisVars>>

JsonNext == JsonDecode \/ Elapse

JsonInit ==
    /\ ServerConstructed
    /\ alphabet = "json"

SpecJson == JsonInit /\ [][JsonNext]_vars

(***************************************************************************)
(* C25: every FlowRecord a decoder returns has a non-empty src and dst and  *)
(* bytes and packets that are not negative.                                 *)
(***************************************************************************)
C25_RecordsHaveAddressesAndCounters ==
    \A i \in 1..Len(result.flows) :
        /\ result.flows[i].src # ""
        /\ result.flows[i].dst # ""
        /\ result.flows[i].bytes >= 0
        /\ result.flows[i].packets >= 0

(***************************************************************************)
(* The decoders on the "framing" datagrams                                  *)
(***************************************************************************)
FramingInit ==
    /\ DecodersLoaded
    /\ alphabet = "framing"
    /\ now = 0

SpecFraming == FramingInit /\ [][DecodeNext]_vars

(***************************************************************************)
(* C26: a NetFlow v9 datagram whose data FlowSets all have an id in 2..255  *)
(* gives no FlowRecord, whatever templates were announced before.           *)
(***************************************************************************)
C26_LowIdsAreNotData ==
    (/\ call.decoder \in {"netflow", "jflow"}
     /\ call.dg.ver = 9
     /\ \A i \in DataSets(call) : call.dg.sets[i].tid \in 2..255)
    => result.flows = <<>>

(***************************************************************************)
(* C27: a NetFlow v9 or IPFIX datagram with a set whose declared length is  *)
(* below 4 or runs past the end of the datagram, or an IPFIX message whose  *)
(* header length is below 16, decodes to the empty list.                    *)
(***************************************************************************)
C27_OutOfRangeDecodesEmpty ==
    (/\ call # NoCall
     /\ \/ \E i \in 1..Len(call.dg.sets) : call.dg.sets[i].kind = "misdeclared"
        \/ "length" \in DOMAIN call.dg)
    => result.flows = <<>>

(***************************************************************************)
(* The capability configured with a group_mode that is none of exporter,    *)
(* src, dst, pair, proto                                                    *)
(***************************************************************************)
GroupModes == {"exporter", "src", "dst", "pair", "proto"}

ConfigureMode ==
    /\ config' = configure([Sensitive EXCEPT !.group_mode = "subnet"])
    /\ UNCHANGED <<_points, _prev, _last_alert_ts, report, fed, lastEvent, npasses, nfeeds,
                   qualified>>
    /\ UNCHANGED <<decodeVars, now, storeVars, collectVars, monitorVars, registryVars>>

ModeNext == ConfigureMode \/ Feed \/ Elapse \/ AnalyzeOnce

ModeInit ==
    /\ ServerConstructed
    /\ alphabet = "mode"

SpecMode == ModeInit /\ [][ModeNext]_vars

(***************************************************************************)
(* C31: a configure with a group_mode outside exporter, src, dst, pair,     *)
(* proto does not change the grouping: the capability keeps one of these    *)
(* modes, and no analysis pass groups records under a key made from another *)
(* mode.                                                                    *)
(***************************************************************************)
C31_UnknownModeNotGrouped ==
    /\ config._group_mode \in GroupModes
    /\ report.name = "analyze_once" =>
          \A i \in 1..Len(report.lat_by_key) : report.lat_by_key[i][1][1] # "all"

(***************************************************************************)
(* The decoders after decode_netflow has learned a template from exporter A *)
(***************************************************************************)
Learning ==
    [decoder |-> "netflow", exporter |-> "A",
     dg |-> Datagram(9, 1, <<TemplateSet(256, LayoutPair)>>)]

AliasInit ==
    /\ StoreUnused
    /\ CollectorsConstructed
    /\ AnalysisConstructed
    /\ _V9_CACHE = decode_netflow(Encode(Learning.dg), Learning.exporter, EmptyDict, 0).cache
    /\ _IPFIX_CACHE = EmptyDict
    /\ family \in {"v9", "ipfix"}
    /\ call = NoCall
    /\ result = [flows |-> <<>>, raised |-> FALSE]
    /\ announced = AnnounceSets(EmptyDict, Learning, Learning.dg.sets)
    /\ ncalls = 1
    /\ scan = NoScan
    /\ alphabet = "scope"
    /\ now = 0

SpecAlias == AliasInit /\ [][DecodeNext]_vars

(***************************************************************************)
(* C32: on every datagram, exporter and cache, decode_jflow returns what    *)
(* decode_netflow returns (or raises as it raises) and leaves the NetFlow   *)
(* v9 cache as decode_netflow leaves it; a call of either returns and       *)
(* leaves just that.                                                        *)
(***************************************************************************)
C32_JflowIsNetflow ==
    [][(call = NoCall /\ call'.decoder \in {"netflow", "jflow"}) =>
          \A n \in {decode_netflow(Encode(call'.dg), call'.exporter, _V9_CACHE, now)} :
          \A j \in {decode_jflow(Encode(call'.dg), call'.exporter, _V9_CACHE, now)} :
             /\ j = n
             /\ result' = [flows |-> n.flows, raised |-> n.raised]
             /\ _V9_CACHE' = n.cache]_vars

\* decode_jflow has returned records of a datagram that holds data sets
\* alone, read by the template decode_netflow learned
C32_Witness ==
    /\ call.decoder = "jflow"
    /\ ncalls = 2
    /\ result.flows # <<>>
    /\ \A i \in 1..Len(call.dg.sets) :
          /\ call.dg.sets[i].kind = "data"
          /\ Key(call, call.dg.sets[i].tid) \in DOMAIN announced

(***************************************************************************)
(* C33: a template set that announces id i for (E, D) again, with another   *)
(* layout, overwrites the cached template: each cache holds, for every key, *)
(* the layout announced last and nothing else, so that templates of other   *)
(* ids and scopes stay as they were, and a data set is read by the layout   *)
(* announced last before it.                                                *)
(***************************************************************************)
\* The layouts a family's cache holds, by <<family, exporter, id, template id>>
Cached(fam) ==
    LET cache == IF fam = "v9" THEN _V9_CACHE ELSE _IPFIX_CACHE
    IN [k \in {<<fam>> \o key : key \in DOMAIN cache} |->
          LET t == cache[SubSeq(k, 2, 4)]
          IN [i \in 1..Len(t.fields) |->
                IF fam = "v9" THEN <<t.fields[i].field_type, t.fields[i].field_len>>
                ELSE <<t.fields[i].ie_id, t.fields[i].length>>]]

\* The layouts announced last, the last call's included
AnnouncedNow(fam) ==
    LET ann == IF call = NoCall THEN announced ELSE AnnouncedAfter
    IN [k \in {x \in DOMAIN ann : x[1] = fam} |-> ann[k]]

C33_ReannouncedTemplateOverwrites ==
    /\ \A fam \in {"v9", "ipfix"} : Cached(fam) = AnnouncedNow(fam)
    /\ \A i \in DataSets(call) :
          LET s == call.dg.sets[i]
              k == Key(call, s.tid)
              ann == AnnouncedAt(i - 1)
          IN (FamilyOf(call) # "" /\ k \in DOMAIN ann /\ Complete(ann[k], s.body)) =>
                IF AddressesWidth4(ann[k]) THEN FirstReadBy(ann[k], s.body)
                ELSE ~result.raised /\ result.flows = <<>>

\* A datagram announced a template again, with the addresses the other way
\* round, ahead of its data set; the data set was read by the new layout and
\* another key has kept its template.
C33_Witness ==
    /\ Len(call.dg.sets) = 2
    /\ call.dg.sets[1].kind = "template"
    /\ call.dg.sets[2].kind = "data"
    /\ call.dg.sets[1].tid = call.dg.sets[2].tid
    /\ LET k == Key(call, call.dg.sets[1].tid)
       IN /\ k \in DOMAIN announced
          /\ AddressesWidth4(announced[k])
          /\ AddressesWidth4(call.dg.sets[1].layout)
          /\ announced[k] # call.dg.sets[1].layout
          /\ FirstReadBy(call.dg.sets[1].layout, call.dg.sets[2].body)
          /\ ~FirstReadBy(announced[k], call.dg.sets[2].body)
          /\ \E o \in DOMAIN announced :
                o # k /\ o[1] = k[1] /\ Cached(k[1])[o] = announced[o]


(***************************************************************************)
(* NetFlow v5 datagrams offered to the decoders                             *)
(***************************************************************************)
V5Init ==
    /\ DecodersLoaded
    /\ alphabet = "v5"
    /\ now = 0

SpecV5 == V5Init /\ [][DecodeNext]_vars

\* the FlowRecord a v5 record on the wire stands for
V5Flow(ts, r) ==
    FlowRecord(ts, <<"ipv4", r.src>>, <<"ipv4", r.dst>>, ToNum(BE16(r.sport)),
               ToNum(BE16(r.dport)), <<"int", ToNum(<<r.prot>>)>>, 0,
               ToNum(BE32(r.octets)), ToNum(BE32(r.pkts)))

V5Call == call # NoCall /\ call.decoder \in {"netflow", "jflow"} /\ call.dg.ver = 5

\* C34: a NetFlow v5 datagram of at least 24 bytes decodes, without an
\* exception, to exactly min(header count, (len - 24) div 48) records: the
\* first records of the datagram in wire order, each with the addresses,
\* ports, protocol, dPkts and dOctets of its own 48 bytes, also when the
\* header count is larger than the records present.
C34_V5CountIsCapped ==
    V5Call =>
        LET len == Len(EncodeV5(call.dg))
            n == Min(call.dg.count, (len - 24) \div 48)
        IN /\ len >= 24
           /\ ~result.raised
           /\ Len(result.flows) = n
           /\ n <= Len(call.dg.records)
           /\ \A i \in 1 .. n :
                result.flows[i] = V5Flow(call.dg.unix_secs, call.dg.records[i])

C34_Witness ==
    /\ V5Call
    /\ call.dg.count = 3
    /\ call.dg.records = <<V5Rec1, V5Rec2>>
    /\ call.dg.tail = 47
    /\ Len(result.flows) = 2
    /\ result.flows[1] = V5Flow(1000, V5Rec1)
    /\ result.flows[2] = V5Flow(1000, V5Rec2)


(***************************************************************************)
(* C35  A collector whose status() reports running = true has its receive  *)
(* task alive; a task that ended on its own (bind failure, error in the    *)
(* loop) does not leave the collector reported as running, and stop()      *)
(* returns normally.                                                       *)
(* Stated as is; nothing but stop() clears _running, and stop() awaits the *)
(* task, which raises the exception the task ended with.                   *)
(***************************************************************************)
C35_EndedTaskNotRunning ==
    \A c \in Caps :
      /\ _task[c] = "failed" => ~status(c).running
      /\ ret[c] # "raised"


(***************************************************************************)
(* The decoders' loops on datagrams whose length fields and counts are not  *)
(* what their contents are.                                                 *)
(***************************************************************************)
\* Two address fields of width 0: record_len = 0.
LayoutZero == <<<<8, 0>>, <<12, 0>>>>

\* A set with the given id and body, its length field right.
RawSet(id, body) == MisdeclaredSet(id, 4 + Len(body), body)

\* A template record that announces 65535 fields and holds one.
BodyManyFields == BE16(257) \o BE16(65535) \o BE16(8) \o BE16(4)

\* Two template records in one set, both of template 256 as LayoutPair.
BodyTwoTemplates ==
    BE16(256) \o BE16(3) \o EncodeLayout(LayoutPair)
    \o BE16(256) \o BE16(3) \o EncodeLayout(LayoutPair)

LoopSets(ver) ==
    {TemplateSet(256, LayoutPair), TemplateSet(256, LayoutZero),
     TemplateSet(256, LayoutSrcWidth(8)),
     RawSet(IF ver = 9 THEN 0 ELSE 2, BodyManyFields),
     RawSet(IF ver = 9 THEN 0 ELSE 2, BodyTwoTemplates),
     RawSet(IF ver = 9 THEN 1 ELSE 3, BodyFull),
     DataSet(256, BodyFull \o BodyFull),
     MisdeclaredSet(256, 0, BodyFull), MisdeclaredSet(256, 40, BodyFull)}

LoopDatagrams(ver) ==
    {Encode(Datagram(ver, 1, sets)) :
        sets \in {<<a>> : a \in LoopSets(ver)}
                 \cup {<<a, b>> : a \in LoopSets(ver), b \in LoopSets(ver)}
                 \cup {<<TemplateSet(256, LayoutPair), a, DataSet(256, BodyFull \o BodyFull)>> :
                          a \in LoopSets(ver)}}

\* sFlow v5, as tests/test_decoders_sflow.py builds it: an Ethernet, IPv4 and
\* TCP header of 54 bytes inside a sampled_header record, padded to 4 bytes.
SFFrame ==
    <<170, 187, 204, 221, 238, 255, 17, 34, 51, 68, 85, 102, 8, 0>>
    \o <<69, 0, 0, 40, 0, 0, 0, 0, 64, 6, 0, 0, 10, 0, 0, 1, 10, 0, 0, 2>>
    \o BE16(1234) \o BE16(443) \o ZeroBytes(16)

SFSampledHeader == BE32(1) \o BE32(54) \o BE32(0) \o BE32(54) \o SFFrame \o <<0, 0>>

\* record_tag, record_len, record data
SFRecord(tag, length, data) == BE32(tag) \o BE32(length) \o data

Huge == 1000000

SFRecords ==
    LET good == SFRecord(1, 72, SFSampledHeader)
    IN {<<>>, good, good \o good,
        SFRecord(1, 0, <<>>) \o good,
        SFRecord(2, 4, <<1, 2, 3, 4>>) \o good,
        SFRecord(1, Huge, <<1, 2, 3, 4>>) \o good}

\* sample_tag, sample_length, then for a flow sample seven words and the
\* record count, for an expanded flow sample ten words and the record count
SFSample(tag, length, words, count, records) ==
    BE32(tag) \o BE32(length) \o ZeroBytes(4 * words) \o BE32(count) \o records

SFSamples ==
    {SFSample(1, 32 + Len(rs), 7, count, rs) : rs \in SFRecords, count \in {2, Huge}}
    \cup {SFSample(3, 44 + 72 + 8, 10, 1, SFRecord(1, 72, SFSampledHeader)),
          SFSample(4096 + 1, 32, 7, 0, <<>>),
          BE32(1) \o BE32(0),
          BE32(1) \o BE32(4) \o <<0, 0, 0, 0>>,
          BE32(1) \o BE32(Huge) \o <<0, 0, 0, 0>>}

\* version, address type, agent address, sub agent id, sequence number,
\* uptime, number of samples, samples
SFDatagram(num_samples, samples) ==
    BE32(5) \o BE32(1) \o <<192, 168, 0, 1>> \o BE32(0) \o BE32(1) \o BE32(100)
    \o BE32(num_samples) \o samples

SFDatagrams ==
    {SFDatagram(n, smp) :
        n \in {1, Huge},
        smp \in SFSamples \cup {a \o b : a \in SFSamples, b \in SFSamples}}
    \cup {SFDatagram(0, smp) : smp \in SFSamples}
    \cup {BE32(5) \o BE32(1), BE32(5) \o BE32(7) \o ZeroBytes(40), BE32(4) \o ZeroBytes(40)}

ScanOver == scan.pc \in {"idle", "returned", "raised"}

Scanning == scan.pc \notin {"idle", "returned", "raised"}

ScanFrame ==
    UNCHANGED <<family, alphabet, call, announced, ncalls, now, storeVars, collectVars,
                analysisVars>>

\* decode_netflow(data, exporter) is called
ScanNetflow ==
    /\ scan = NoScan
    /\ family = "v9"
    /\ \E data \in LoopDatagrams(9) : scan' = decode_netflow_Enter(data, "A", now)
    /\ UNCHANGED <<_V9_CACHE, _IPFIX_CACHE, result>>
    /\ ScanFrame

\* decode_ipfix(data, exporter) is called
ScanIpfix ==
    /\ scan = NoScan
    /\ family = "ipfix"
    /\ \E data \in LoopDatagrams(10) : scan' = decode_ipfix_Enter(data, "A", now)
    /\ UNCHANGED <<_V9_CACHE, _IPFIX_CACHE, result>>
    /\ ScanFrame

\* decode_sflow(data) is called
ScanSflow ==
    /\ scan = NoScan
    /\ family = "sflow"
    /\ \E data \in SFDatagrams : scan' = decode_sflow_Enter(data, now)
    /\ UNCHANGED <<_V9_CACHE, _IPFIX_CACHE, result>>
    /\ ScanFrame

FlowSetStep ==
    /\ scan.decoder = "netflow" /\ scan.pc = "sets"
    /\ scan' = _decode_v9_Step(scan, _V9_CACHE)
    /\ UNCHANGED <<_V9_CACHE, _IPFIX_CACHE, result>>
    /\ ScanFrame

TemplateStep ==
    /\ scan.decoder = "netflow" /\ scan.pc = "templates"
    /\ \E r \in {_parse_v9_template_flowset_Step(scan, _V9_CACHE)} :
         scan' = r.scan /\ _V9_CACHE' = r.cache
    /\ UNCHANGED <<_IPFIX_CACHE, result>>
    /\ ScanFrame

DataStep ==
    /\ scan.decoder = "netflow" /\ scan.pc = "records"
    /\ scan' = _parse_v9_data_flowset_Step(scan)
    /\ UNCHANGED <<_V9_CACHE, _IPFIX_CACHE, result>>
    /\ ScanFrame

SetStep ==
    /\ scan.decoder = "ipfix" /\ scan.pc = "sets"
    /\ scan' = decode_ipfix_Step(scan, _IPFIX_CACHE)
    /\ UNCHANGED <<_V9_CACHE, _IPFIX_CACHE, result>>
    /\ ScanFrame

IpfixTemplateStep ==
    /\ scan.decoder = "ipfix" /\ scan.pc = "templates"
    /\ \E r \in {_parse_ipfix_template_set_Step(scan, _IPFIX_CACHE)} :
         scan' = r.scan /\ _IPFIX_CACHE' = r.cache
    /\ UNCHANGED <<_V9_CACHE, result>>
    /\ ScanFrame

IpfixDataStep ==
    /\ scan.decoder = "ipfix" /\ scan.pc = "records"
    /\ scan' = _parse_ipfix_data_set_Step(scan)
    /\ UNCHANGED <<_V9_CACHE, _IPFIX_CACHE, result>>
    /\ ScanFrame

SampleStep ==
    /\ scan.decoder = "sflow" /\ scan.pc = "samples"
    /\ scan' = decode_sflow_Step(scan)
    /\ UNCHANGED <<_V9_CACHE, _IPFIX_CACHE, result>>
    /\ ScanFrame

FlowRecordStep ==
    /\ scan.decoder = "sflow" /\ scan.pc = "flowrecords"
    /\ scan' = _decode_flow_records_Step(scan)
    /\ UNCHANGED <<_V9_CACHE, _IPFIX_CACHE, result>>
    /\ ScanFrame

\* The call is over and its frame is gone; the templates it cached stay.
ScanReturn ==
    /\ scan.pc \in {"returned", "raised"}
    /\ scan' = NoScan
    /\ UNCHANGED <<_V9_CACHE, _IPFIX_CACHE, result>>
    /\ ScanFrame

ScanStep ==
    \/ FlowSetStep \/ TemplateStep \/ DataStep
    \/ SetStep \/ IpfixTemplateStep \/ IpfixDataStep
    \/ SampleStep \/ FlowRecordStep

ScanNext == ScanNetflow \/ ScanIpfix \/ ScanSflow \/ ScanStep \/ ScanReturn

ScanInit ==
    /\ StoreUnused
    /\ CollectorsConstructed
    /\ AnalysisConstructed
    /\ _V9_CACHE = EmptyDict
    /\ _IPFIX_CACHE = EmptyDict
    /\ family \in {"v9", "ipfix", "sflow"}
    /\ alphabet = "loops"
    /\ call = NoCall
    /\ result = [flows |-> <<>>, raised |-> FALSE]
    /\ announced = EmptyDict
    /\ ncalls = 0
    /\ scan = NoScan
    /\ now = 1000

\* A decoder call that is under way is run on; nothing obliges a new call.
FairScan == ScanInit /\ [][ScanNext]_vars /\ WF_vars(ScanStep)

\* What one step does to the read offsets: a pass of a loop that stays in the
\* loop moves the loop's own offset forward, within what it reads; a set body
\* handed to an inner loop ends beyond the set's start, and after it the
\* outer loop is at that end.
ScanAdvances ==
    /\ (scan.pc \in {"sets", "samples"} /\ scan'.pc = scan.pc) =>
         scan'.off > scan.off /\ scan'.off <= Len(scan'.msg)
    /\ (scan.pc = "sets" /\ scan'.pc \in {"templates", "records"}) =>
         scan'.end > scan.off /\ scan'.end <= Len(scan'.msg) /\ scan'.boff = 0
    /\ (scan.pc = "samples" /\ scan'.pc = "flowrecords") =>
         scan'.off > scan.off /\ scan'.off <= Len(scan'.msg)
    /\ (scan.pc \in {"templates", "records", "flowrecords"} /\ scan'.pc = scan.pc) =>
         scan'.boff > scan.boff /\ scan'.boff <= Len(scan'.body)
    /\ (scan.pc \in {"templates", "records"} /\ scan'.pc = "sets") =>
         scan'.off = scan.end /\ scan'.off > scan.off
    /\ (scan.pc = "flowrecords" /\ scan'.pc = "samples") => scan'.off = scan.off

(***************************************************************************)
(* C36  Every decoder call terminates on every input: each pass of the set *)
(* / FlowSet / sample / record loops of the v9, IPFIX and sFlow decoders   *)
(* strictly advances the read offset (a declared set length below 4 or a   *)
(* template record length of 0 stops the loop instead of repeating), so    *)
(* every call that is under way returns or raises.                         *)
(***************************************************************************)
C36_DecodersTerminate ==
    /\ [][ScanAdvances]_vars
    /\ Scanning ~> scan.pc \in {"returned", "raised"}

\* The FlowSet loop has passed over a set and stopped at one whose length
\* field is below 4, with bytes of the datagram unread behind it.
C36_Witness ==
    /\ scan.pc = "returned"
    /\ scan.decoder \in {"netflow", "ipfix"}
    /\ scan.off > 20
    /\ scan.off + 4 + 12 <= Len(scan.msg)
    /\ U16(scan.msg, scan.off + 2) < 4


(***************************************************************************)
(* Reconfiguration between passes                                           *)
(***************************************************************************)
ReconfigureInit ==
    /\ ServerConstructed
    /\ alphabet = "reconfigure"

SpecReconfigure == ReconfigureInit /\ [][BaselineNext]_vars

\* C37: configure changes only the tuning parameters: every learned baseline
\* point (mean, var, n), every stored shift prior and every cooldown timestamp
\* is what it was, so no warm-up restarts, and with cooldown_seconds unchanged
\* exactly the alert keys that were in cooldown still are.
C37_ConfigureKeepsLearnedState ==
    [][config' # config =>
         /\ _points' = _points
         /\ _prev' = _prev
         /\ _last_alert_ts' = _last_alert_ts
         /\ config'._cooldown_seconds = config._cooldown_seconds =>
              \A k \in DOMAIN _last_alert_ts :
                  _in_cooldown(_last_alert_ts', k, config'._cooldown_seconds, now')
                  = _in_cooldown(_last_alert_ts, k, config._cooldown_seconds, now)]_vars

\* The last pass ran under another window than the one configured now, and
\* it left points with updates, a shift prior and a key in cooldown.
C37_Witness ==
    /\ report.name = "analyze_once"
    /\ report.returned.window_seconds # config._window_seconds
    /\ \E p \in DOMAIN _points : _points[p].n >= 1
    /\ _prev # EmptyDict
    /\ \E k \in DOMAIN _last_alert_ts :
         _in_cooldown(_last_alert_ts, k, config._cooldown_seconds, now)


(***************************************************************************)
(* C38  LatencyMonitor.analyze (and the analyze_latency tool) never        *)
(* changes the deduper's cooldown map: only build_alerts / monitor_once    *)
(* consume a key's cooldown, so a monitor_once that finds the map empty,   *)
(* whatever analyze calls reported before it, alerts for every offender.   *)
(***************************************************************************)
C38_AnalyzeLeavesCooldowns ==
    [][/\ Asks({"analyze"}) => last_alert_ts' = last_alert_ts
       /\ (Asks({"monitor_once"}) /\ last_alert_ts = EmptyDict) =>
             FlowsOf(asked'.returned) = FlowsOf(asked'.analysis.offenders)]_vars

\* analyze has reported an offender no alert was ever asked for, and the
\* cooldown map is empty.
C38_Witness ==
    /\ asked.name = "analyze"
    /\ analysis # NoAnalysis
    /\ analysis.offenders # <<>>
    /\ last_alert_ts = EmptyDict


\* The keys of a window's records, and how many records a key has in it.
KeysIn(flows, mode) == {_key_builder(flows[i], mode) : i \in 1..Len(flows)}

SamplesIn(flows, mode, k) ==
    Cardinality({i \in 1..Len(flows) : _key_builder(flows[i], mode) = k})

Sparse(flows, self) ==
    {k \in KeysIn(flows, self._group_mode) :
        SamplesIn(flows, self._group_mode, k) < self._min_samples_per_key}

(***************************************************************************)
(* C39  In an analyze_once pass, a key with fewer than min_samples_per_key *)
(* samples in the window is neither evaluated for anomalies nor used to    *)
(* update its baseline (mean, var and n of its points stay unchanged), yet *)
(* it is counted in keys_seen and its count enters the distribution given  *)
(* to the ShiftModel (the prior the ShiftModel stores has its share).      *)
(***************************************************************************)
C39_SparseKeysCountedNotJudged ==
    [][PassStep =>
        LET flows == report'.flows
            mode == config._group_mode
            dimension == <<"count_by", mode>>
        IN /\ report'.returned.keys_seen = Cardinality(KeysIn(flows, mode))
           /\ \A k \in Sparse(flows, config) :
                /\ \A metric \in Metrics :
                     /\ Notes(report'.seen, k, metric) = {}
                     /\ <<k, metric>> \in DOMAIN _points' <=> <<k, metric>> \in DOMAIN _points
                     /\ get_point(_points', k, metric) = get_point(_points, k, metric)
                /\ ~FLess(FInt(Len(flows)), config._shift_min_total) =>
                     /\ dimension \in DOMAIN _prev'
                     /\ ItemGet(_prev'[dimension].dist, k, <<>>)
                          = FDiv(FInt(SamplesIn(flows, mode, k)), FInt(Len(flows)))]_vars

\* A pass over a window in which one key had samples enough and another had
\* one: two keys seen, the first judged and learned, the second with no point
\* and with its share in the stored prior.
C39_Witness ==
    /\ report.name = "analyze_once"
    /\ report.returned.keys_seen = 2
    /\ <<"count_by", config._group_mode>> \in DOMAIN _prev
    /\ \E k \in Sparse(report.flows, config) :
         /\ <<k, "p95_ms">> \notin DOMAIN _points
         /\ ItemGet(_prev[<<"count_by", config._group_mode>>].dist, k, <<>>)
              = FDiv(FInt(1), FInt(Len(report.flows)))
    /\ \E k \in KeysIn(report.flows, config._group_mode) \ Sparse(report.flows, config) :
         /\ Notes(report.seen, k, "p95_ms") # {}
         /\ <<k, "p95_ms">> \in DOMAIN _points
         /\ _points[<<k, "p95_ms">>].n >= 1


(***************************************************************************)
(* Templates with fields of other widths than 1, 2, 4, 8                    *)
(***************************************************************************)
WidthsInit ==
    /\ DecodersLoaded
    /\ alphabet = "widths"
    /\ now = 0

SpecWidths == WidthsInit /\ [][DecodeNext]_vars

\* The template's fields of a name that a decoder reads.
WReads(layout, name) ==
    \E i \in 1..Len(layout) : WName(layout[i][1]) = name /\ WRead(layout[i])

\* A value the decoders took from the wire, or the default 0.
WValue(layout, rec, name) ==
    IF WReads(layout, name) THEN ToNum(BE32(rec[name])) ELSE Zero

\* The FlowRecord of a flow under a template, if both of its addresses are read.
WFlow(layout, rec) ==
    IF WReads(layout, "src_ipv4") /\ WReads(layout, "dst_ipv4")
    THEN <<FlowRecord(1000, <<"ipv4", rec.src_ipv4>>, <<"ipv4", rec.dst_ipv4>>,
                      WValue(layout, rec, "src_port"), WValue(layout, rec, "dst_port"),
                      StrOfInt(WValue(layout, rec, "proto")), 0,
                      WValue(layout, rec, "bytes"), Zero)>>
    ELSE <<>>

WidthsCall ==
    /\ call # NoCall
    /\ call.dg.ver = (IF call.decoder = "ipfix" THEN 10 ELSE 9)

\* C40: in the v9 and IPFIX data-set decoders a mapped field whose template
\* width is not 1, 2, 4 or 8 is skipped and the fields after it are read at
\* their own offsets: a record is emitted iff both IPv4 fields were read, with
\* 0 for a skipped port, protocol or counter, and is dropped when a skipped
\* field is the source or the destination address.
C40_OddWidthsSkipped ==
    WidthsCall =>
        /\ ~result.raised
        /\ result.flows = WFlow(call.dg.sets[1].layout, WRec1)
                          \o WFlow(call.dg.sets[1].layout, WRec2)

\* A decoder has met a template whose source port is 3 bytes wide ahead of
\* fields it reads: two records, the port 0, the fields behind it right.
C40_Witness ==
    /\ WidthsCall
    /\ call.dg.sets[1].layout = Widened(3, 3)
    /\ Len(result.flows) = 2
    /\ result.flows[2].src_port = Zero
    /\ result.flows[2].dst_port = ToNum(BE16(40000))
    /\ result.flows[2].proto = StrOfInt(<<17>>)
    /\ result.flows[2].bytes = <<60>>

====
